---- MODULE Spec2Model ----
(***************************************************************************)
(* A model of the core of pulsar-client-go: the Producer request/response  *)
(* exchanges (core/pub/producer.go), the CONNECT handshake                 *)
(* (core/conn/connector.go), the connection (core/conn/conn.go), the frame *)
(* codec (core/frame) and the ManagedConsumer with its supervisor          *)
(* (core/manage).                                                          *)
(* Every goroutine that calls into the library is a process with a program *)
(* counter; the connection's reader task is one more process.  The frame   *)
(* dispatcher, the monotonic counters and the frame router are not part of *)
(* the sources at hand and follow the design document.                     *)
(***************************************************************************)
EXTENDS Integers, Sequences, FiniteSets, TLC

\* ------------------------------------------------------------ bounds
\* Number of goroutines calling Producer.Send concurrently.
NumSend == 2
\* Number of goroutines calling Producer.Close concurrently.
NumClose == 2
\* Number of goroutines calling Connector.Connect concurrently.
NumConnect == 2
\* Number of goroutines calling Conn.Close concurrently.
NumConnClose == 2
\* Number of frames Conn.Read hands to its handler before the model stops
\* counting them.
MaxFrames == 2
\* Longest payload of the frames the codec is exercised on.
MaxPayloadLen == 2
\* Number of consecutive lengths tried above each base length of a frame part.
SizeSpread == 40
\* Number of goroutines calling SendSimpleCmd or SendPayloadCmd concurrently.
NumWrite == 2
\* Number of consumers a ManagedConsumer creates, the first one included.
MaxConsumers == 2
\* Number of times the creation of a consumer fails.
MaxFail == 10
\* Number of goroutines calling an operation of the ManagedConsumer.
NumOps == 1
\* Number of messages put on the delivery queue.
MaxMsgs == 3
\* Number of calls each goroutine makes of an operation of the
\* ManagedConsumer.
MaxCalls == 3
\* Number of wait channels a ManagedConsumer makes.
MaxWaitc == 3
\* Number of buffers of each pool that writes on other connections of the
\* process may have returned.
PoolSlack == 1
\* the capacity of the channel msgs that the user hands to ReceiveAsync
MsgsCap == 1

\* ------------------------------------------------------------ constants
\* producer id and first request id used by the producer tests
ProducerID == 123
InitialReqID == 43
\* utils.UndefRequestID is the all-ones uint64, "-1" in the words of Connect
UndefRequestID == -1

Senders == 1 .. NumSend
Closers == 1 .. NumClose
SendCall(t) == <<"send", t>>
CloseCall(c) == <<"close", c>>
ConnectCall(k) == <<"connect", k>>
Connectors == 1 .. NumConnect
ConnectCalls == {ConnectCall(k) : k \in Connectors}
ProducerCalls == {SendCall(t) : t \in Senders} \cup {CloseCall(c) : c \in Closers}

\* the id of a call that took none: below every id a counter hands out
NoSeq == UndefRequestID - 1
\* no goroutine
NoCall == <<"none", 0>>
NoFrame == [type |-> "none"]

\* api.ServerError values a broker may put in SEND_ERROR / ERROR
ServerErrors == {"PersistenceError", "ChecksumError"}
\* Message a broker attaches to an error frame
ErrorMessage(e) == IF e = "ChecksumError" THEN "no me mandes esto" ELSE "try later"
\* message ids a broker may put in a SEND_RECEIPT
ReceiptMessageIds == {"7:0", "7:1"}

\* errors returned by the calls
ErrNil == "nil"
ErrClosedProducer == "producer is closed"
ErrCtx == "context canceled"
ErrSend == "write failed"
ErrAlreadyRegistered == "already registered"

VARIABLES
    \* Producer
    IsClosed,      \* p.IsClosed
    Closedc,       \* number of close(p.Closedc) executed; Closed() fires once it is 1
    Mu,            \* holder of p.Mu's write lock, or "none"
    SeqID,         \* p.SeqID.ID
    ReqID,         \* p.ReqID.ID
    send,          \* Producer.Send calls
    close,         \* Producer.Close calls
    taken,         \* sequence-ids in the order SeqID.Next handed them out
    \* Dispatcher
    prodSeqIDs,    \* (producer-id, sequence-id) key -> registered call
    reqIDs,        \* request-id key -> registered call
    global,        \* the call holding the global slot, or "none"
    \* CmdSender
    Frames,        \* frames accepted by the CmdSender, in order
    \* Connector
    connect,       \* Connector.Connect calls
    \* callers' contexts and the reader task
    ctxDone,       \* the calls whose context is done
    reader,        \* the task that routes inbound frames
    \* Conn
    ConnIsClosed,  \* c.IsClosed
    ConnClosedc,   \* number of close(c.Closedc) executed
    Cmu,           \* holder of c.Cmu, or "none"
    RcCloses,      \* number of c.Rc.Close() calls made on the socket
    connClose,     \* Conn.Close calls, the one made by Read included
    read,          \* Conn.Read
    \* Frame codec
    frame,         \* the Frame given to Encode
    buf,           \* the error Encode returned and the bytes in its writer
    corrupted,     \* position of the byte changed after encoding, 0 for none
    decoded,       \* the error Decode returned and the Frame it filled
    fpc,           \* how far the frame has gone: new, encoded, corrupted, decoded
    sizes,         \* lengths of the parts of a Frame given to Encode
    sized,         \* that Encode call: the error returned, the bytes written
    \* Conn, the write side
    Wmu,           \* holder of c.Wmu, or no call
    W,             \* the bytes the socket has taken, each with the call it came from
    broken,        \* the socket has failed a write
    write,         \* SendSimpleCmd / SendPayloadCmd calls
    bufPoolChan,       \* buffers taken with getBuf and not yet put back
    smallBufPoolChan,  \* the same for getSmallBuf
    \* ManagedConsumer
    cfg,            \* m.cfg, after SetDefaults
    consumer,       \* m.consumer: a consumer, or nil
    waitc,          \* m.waitc: a channel, or nil
    waitClosed,     \* the wait channels that were closed
    stopManageChan, \* number of close(m.stopManageChan)
    queue,          \* m.queue
    lost,           \* per consumer, the signal it has raised, if any
    made,           \* number of consumers created
    budget,         \* number of times creation can still fail
    manage,         \* the manage goroutine
    ops,            \* the calls of Ack, Receive, ..., Close
    async,          \* the ReceiveAsync call
    msgs,           \* what ReceiveAsync sent on the user's channel
    flow,           \* the last Flow request of ReceiveAsync
    put,            \* the messages that arrived for m.queue: which were dropped
    overflowSignal, \* number of signals waiting on OverflowSignal
    overflowOf,     \* per consumer, whose Overflow and OverflowSignal it holds
    permits         \* per consumer, the permits its broker still holds

pVars == <<IsClosed, Closedc, Mu, SeqID, ReqID, send, close, taken, prodSeqIDs>>
kVars == <<connect, global>>
cVars == <<ConnIsClosed, ConnClosedc, Cmu, RcCloses, connClose, read>>
fVars == <<frame, buf, corrupted, decoded, fpc, sizes, sized>>
coreVars == <<pVars, kVars, cVars, reqIDs, Frames, ctxDone, reader>>
wVars == <<Wmu, W, broken, write, bufPoolChan, smallBufPoolChan>>
mVars == <<cfg, consumer, waitc, waitClosed, stopManageChan, queue, lost, made,
           budget, manage, ops, async, msgs, flow, put, overflowSignal,
           overflowOf, permits>>
restVars == <<fVars, wVars, mVars>>
notProducer == <<kVars, cVars, restVars>>
notConnector == <<pVars, cVars, restVars>>
notConn == <<pVars, kVars, reqIDs, Frames, ctxDone, reader, restVars>>
notCodec == <<coreVars, wVars, mVars>>
notWriter == <<coreVars, fVars, mVars>>
notManaged == <<coreVars, fVars, wVars>>
vars == <<coreVars, restVars>>

\* ------------------------------------------------------------ helpers
EmptyMap == [k \in {} |-> NoCall]
Put(m, k, v) == [x \in (DOMAIN m) \cup {k} |-> IF x = k THEN v ELSE m[x]]
Del(m, k) == [x \in (DOMAIN m) \ {k} |-> m[x]]
\* a registration's cancel handle: releases the key while the caller owns it
Cancel(m, k, who) == IF k \in DOMAIN m /\ m[k] = who THEN Del(m, k) ELSE m

ReaderIdle == [pc |-> "idle", to |-> NoCall, via |-> "none", f |-> NoFrame]
\* cancel closes the registration's done channel: a notify blocked on
\* handing its frame to `who` gives up and drops the frame
ReaderAfterCancel(who) ==
    IF reader.pc = "notify" /\ reader.to = who THEN ReaderIdle ELSE reader
\* a frame is waiting on the response channel of `who`
Offered(who, via) == reader.pc = "notify" /\ reader.to = who /\ reader.via = via

\* fmt.Errorf("%s: %s", kind, message)
Errorf(kind, message) == kind \o ": " \o message

\* utils.NewUnexpectedErrMsg
UnexpectedErr(type) == "unexpected message type: " \o type

\* ------------------------------------------------------------ Producer
NewProducerSeqID == 0

\* a Send call: its place, its sequence-id, the frames it handed to the sender,
\* the frame it read from resp, and what it returned
SendIdle == [pc |-> "start", seq |-> NoSeq, sends |-> 0, got |-> NoFrame,
             receipt |-> NoFrame, err |-> ErrNil]
\* a Close call; `got` is the frame it read from resp (and discards)
CloseIdle == [pc |-> "start", reqid |-> NoSeq, sends |-> 0, got |-> NoFrame,
              err |-> ErrNil]

\* MonotonicID.Next: atomic increment that returns the value before it
Next(id) == id + 1

\* Send without its closed check
SendCheckClosed_NoCheck(t) ==
    /\ send[t].pc = "start"
    /\ Mu = NoCall
    /\ send' = [send EXCEPT ![t] = [@ EXCEPT !.pc = "seq"]]
    /\ UNCHANGED <<IsClosed, Closedc, Mu, SeqID, ReqID, taken, close, prodSeqIDs,
                   reqIDs, Frames, ctxDone, reader, notProducer>>

\* Producer.Send, lines 78-83: the closed check under the read lock
SendCheckClosed(t) ==
    /\ send[t].pc = "start"
    /\ Mu = NoCall
    /\ send' = [send EXCEPT ![t] =
                  IF IsClosed
                  THEN [@ EXCEPT !.pc = "done", !.err = ErrClosedProducer]
                  ELSE [@ EXCEPT !.pc = "seq"]]
    /\ UNCHANGED <<IsClosed, Closedc, Mu, SeqID, ReqID, taken, close, prodSeqIDs,
                   reqIDs, Frames, ctxDone, reader, notProducer>>

\* Send reading the counter without advancing it
SendNextSeqID_NoIncrement(t) ==
    /\ send[t].pc = "seq"
    /\ send' = [send EXCEPT ![t] = [@ EXCEPT !.pc = "reg", !.seq = SeqID]]
    /\ taken' = Append(taken, SeqID)
    /\ UNCHANGED <<IsClosed, Closedc, Mu, SeqID, ReqID, close, prodSeqIDs, reqIDs,
                   Frames, ctxDone, reader, notProducer>>

\* Producer.Send, line 85: sequenceID := p.SeqID.Next()
SendNextSeqID(t) ==
    /\ send[t].pc = "seq"
    /\ send' = [send EXCEPT ![t] = [@ EXCEPT !.pc = "reg", !.seq = SeqID]]
    /\ SeqID' = Next(SeqID)
    /\ taken' = Append(taken, SeqID)
    /\ UNCHANGED <<IsClosed, Closedc, Mu, ReqID, close, prodSeqIDs, reqIDs, Frames,
                   ctxDone, reader, notProducer>>

\* Send going on to SendPayloadCmd without RegisterProdSeqIDs
SendRegister_Skip(t) ==
    /\ send[t].pc = "reg"
    /\ send' = [send EXCEPT ![t] = [@ EXCEPT !.pc = "send"]]
    /\ UNCHANGED <<IsClosed, Closedc, Mu, SeqID, ReqID, taken, close, reqIDs, Frames,
                   ctxDone, reader, prodSeqIDs, notProducer>>

\* Producer.Send, lines 102-106: RegisterProdSeqIDs
SendRegister(t) ==
    /\ send[t].pc = "reg"
    /\ IF send[t].seq \in DOMAIN prodSeqIDs
       THEN /\ send' = [send EXCEPT ![t] =
                          [@ EXCEPT !.pc = "done", !.err = ErrAlreadyRegistered]]
            /\ UNCHANGED prodSeqIDs
       ELSE /\ send' = [send EXCEPT ![t] = [@ EXCEPT !.pc = "send"]]
            /\ prodSeqIDs' = Put(prodSeqIDs, send[t].seq, SendCall(t))
    /\ UNCHANGED <<IsClosed, Closedc, Mu, SeqID, ReqID, taken, close, reqIDs, Frames,
                   ctxDone, reader, notProducer>>

SendFrame(t) == [type |-> "SEND", producerId |-> ProducerID,
                 sequenceId |-> send[t].seq, requestId |-> NoSeq]

\* Producer.Send, lines 112-114: SendPayloadCmd, which may fail; the deferred
\* cancel runs on the failure return
SendPayload(t) ==
    /\ send[t].pc = "send"
    /\ \E ok \in BOOLEAN :
         IF ok
         THEN /\ Frames' = Append(Frames, SendFrame(t))
              /\ send' = [send EXCEPT ![t] =
                            [@ EXCEPT !.pc = "wait", !.sends = @ + 1]]
              /\ UNCHANGED <<prodSeqIDs, reader>>
         ELSE /\ send' = [send EXCEPT ![t] = [@ EXCEPT !.pc = "done", !.err = ErrSend]]
              /\ prodSeqIDs' = Cancel(prodSeqIDs, send[t].seq, SendCall(t))
              /\ reader' = ReaderAfterCancel(SendCall(t))
              /\ UNCHANGED Frames
    /\ UNCHANGED <<IsClosed, Closedc, Mu, SeqID, ReqID, taken, close, reqIDs,
                   ctxDone, notProducer>>

\* Send returning a nil receipt for a SEND_RECEIPT frame
SendResult_DropsReceipt(r, f) ==
    CASE f.type = "SEND_RECEIPT" ->
           [r EXCEPT !.pc = "done", !.got = f, !.err = ErrNil]
      [] f.type = "SEND_ERROR" ->
           [r EXCEPT !.pc = "done", !.got = f, !.err = Errorf(f.error, f.message)]
      [] OTHER ->
           [r EXCEPT !.pc = "done", !.got = f, !.err = UnexpectedErr(f.type)]

\* Send taking a SEND_ERROR frame for the receipt
SendResult_ErrorAsReceipt(r, f) ==
    CASE f.type \in {"SEND_RECEIPT", "SEND_ERROR"} ->
           [r EXCEPT !.pc = "done", !.got = f, !.receipt = f, !.err = ErrNil]
      [] OTHER ->
           [r EXCEPT !.pc = "done", !.got = f, !.err = UnexpectedErr(f.type)]

\* Producer.Send, lines 124-139: the outcome for a frame read from resp
SendResult(r, f) ==
    CASE f.type = "SEND_RECEIPT" ->
           [r EXCEPT !.pc = "done", !.got = f, !.receipt = f, !.err = ErrNil]
      [] f.type = "SEND_ERROR" ->
           [r EXCEPT !.pc = "done", !.got = f, !.err = Errorf(f.error, f.message)]
      [] OTHER ->
           [r EXCEPT !.pc = "done", !.got = f, !.err = UnexpectedErr(f.type)]

\* Send returning from its select without the deferred cancel
SendWait_NoCancel(t) ==
    /\ send[t].pc = "wait"
    /\ \/ /\ ctxDone[SendCall(t)]
          /\ send' = [send EXCEPT ![t] = [@ EXCEPT !.pc = "done", !.err = ErrCtx]]
          /\ UNCHANGED reader
       \/ /\ Closedc > 0
          /\ send' = [send EXCEPT ![t] =
                        [@ EXCEPT !.pc = "done", !.err = ErrClosedProducer]]
          /\ UNCHANGED reader
       \/ /\ Offered(SendCall(t), "prodSeqIDs")
          /\ send' = [send EXCEPT ![t] =
                        [@ EXCEPT !.pc = "done", !.got = reader.f,
                                  !.err = IF reader.f.type = "SEND_RECEIPT"
                                          THEN ErrNil ELSE "rejected"]]
          /\ reader' = ReaderIdle
    /\ UNCHANGED <<IsClosed, Closedc, Mu, SeqID, ReqID, taken, close, prodSeqIDs,
                   reqIDs, Frames, ctxDone, notProducer>>

\* Send's select without the case on p.Closed()
SendWait_NoClosed(t) ==
    /\ send[t].pc = "wait"
    /\ \/ /\ ctxDone[SendCall(t)]
          /\ send' = [send EXCEPT ![t] = [@ EXCEPT !.pc = "done", !.err = ErrCtx]]
       \/ /\ Offered(SendCall(t), "prodSeqIDs")
          /\ send' = [send EXCEPT ![t] = SendResult(@, reader.f)]
    /\ prodSeqIDs' = Cancel(prodSeqIDs, send[t].seq, SendCall(t))
    /\ reader' = ReaderAfterCancel(SendCall(t))
    /\ UNCHANGED <<IsClosed, Closedc, Mu, SeqID, ReqID, taken, close, reqIDs, Frames,
                   ctxDone, notProducer>>

\* Producer.Send, lines 117-140: the select, then the deferred cancel
SendWait(t) ==
    /\ send[t].pc = "wait"
    /\ \/ /\ ctxDone[SendCall(t)]
          /\ send' = [send EXCEPT ![t] = [@ EXCEPT !.pc = "done", !.err = ErrCtx]]
       \/ /\ Closedc > 0
          /\ send' = [send EXCEPT ![t] =
                        [@ EXCEPT !.pc = "done", !.err = ErrClosedProducer]]
       \/ /\ Offered(SendCall(t), "prodSeqIDs")
          /\ send' = [send EXCEPT ![t] = SendResult(@, reader.f)]
    /\ prodSeqIDs' = Cancel(prodSeqIDs, send[t].seq, SendCall(t))
    /\ reader' = ReaderAfterCancel(SendCall(t))
    /\ UNCHANGED <<IsClosed, Closedc, Mu, SeqID, ReqID, taken, close, reqIDs, Frames,
                   ctxDone, notProducer>>

CloseFrame(c) == [type |-> "CLOSE_PRODUCER", producerId |-> ProducerID,
                  sequenceId |-> NoSeq, requestId |-> close[c].reqid]

\* Close without its closed check
CloseBegin_NoCheck(c) ==
    /\ close[c].pc = "start"
    /\ Mu = NoCall
    /\ ReqID' = Next(ReqID)
    /\ IF ReqID \in DOMAIN reqIDs
       THEN /\ close' = [close EXCEPT ![c] =
                           [@ EXCEPT !.pc = "done", !.reqid = ReqID,
                                     !.err = ErrAlreadyRegistered]]
            /\ UNCHANGED <<Mu, reqIDs>>
       ELSE /\ close' = [close EXCEPT ![c] =
                           [@ EXCEPT !.pc = "send", !.reqid = ReqID]]
            /\ reqIDs' = Put(reqIDs, ReqID, CloseCall(c))
            /\ Mu' = CloseCall(c)
    /\ UNCHANGED <<IsClosed, Closedc, SeqID, taken, send, prodSeqIDs, Frames,
                   ctxDone, reader, notProducer>>

\* Close reading the request-id counter without advancing it
CloseBegin_SameReqID(c) ==
    /\ close[c].pc = "start"
    /\ Mu = NoCall
    /\ IF IsClosed
       THEN /\ close' = [close EXCEPT ![c] = [@ EXCEPT !.pc = "done", !.err = ErrNil]]
            /\ UNCHANGED <<Mu, reqIDs>>
       ELSE IF ReqID \in DOMAIN reqIDs
            THEN /\ close' = [close EXCEPT ![c] =
                                [@ EXCEPT !.pc = "done", !.reqid = ReqID,
                                          !.err = ErrAlreadyRegistered]]
                 /\ UNCHANGED <<Mu, reqIDs>>
            ELSE /\ close' = [close EXCEPT ![c] =
                                [@ EXCEPT !.pc = "send", !.reqid = ReqID]]
                 /\ reqIDs' = Put(reqIDs, ReqID, CloseCall(c))
                 /\ Mu' = CloseCall(c)
    /\ UNCHANGED <<IsClosed, Closedc, SeqID, ReqID, taken, send, prodSeqIDs, Frames,
                   ctxDone, reader, notProducer>>

\* Producer.Close, lines 162-183: lock, closed check, ReqID.Next, RegisterReqID
CloseBegin(c) ==
    /\ close[c].pc = "start"
    /\ Mu = NoCall
    /\ IF IsClosed
       THEN /\ close' = [close EXCEPT ![c] = [@ EXCEPT !.pc = "done", !.err = ErrNil]]
            /\ UNCHANGED <<Mu, ReqID, reqIDs>>
       ELSE /\ ReqID' = Next(ReqID)
            /\ IF ReqID \in DOMAIN reqIDs
               THEN /\ close' = [close EXCEPT ![c] =
                                   [@ EXCEPT !.pc = "done", !.reqid = ReqID,
                                             !.err = ErrAlreadyRegistered]]
                    /\ UNCHANGED <<Mu, reqIDs>>
               ELSE /\ close' = [close EXCEPT ![c] =
                                   [@ EXCEPT !.pc = "send", !.reqid = ReqID]]
                    /\ reqIDs' = Put(reqIDs, ReqID, CloseCall(c))
                    /\ Mu' = CloseCall(c)
    /\ UNCHANGED <<IsClosed, Closedc, SeqID, taken, send, prodSeqIDs, Frames,
                   ctxDone, reader, notProducer>>

\* Producer.Close, lines 185-187: SendSimpleCmd, which may fail
CloseSend(c) ==
    /\ close[c].pc = "send"
    /\ \E ok \in BOOLEAN :
         IF ok
         THEN /\ Frames' = Append(Frames, CloseFrame(c))
              /\ close' = [close EXCEPT ![c] =
                             [@ EXCEPT !.pc = "wait", !.sends = @ + 1]]
              /\ UNCHANGED <<reqIDs, reader, Mu>>
         ELSE /\ close' = [close EXCEPT ![c] = [@ EXCEPT !.pc = "done", !.err = ErrSend]]
              /\ reqIDs' = Cancel(reqIDs, close[c].reqid, CloseCall(c))
              /\ reader' = ReaderAfterCancel(CloseCall(c))
              /\ Mu' = NoCall
              /\ UNCHANGED Frames
    /\ UNCHANGED <<IsClosed, Closedc, SeqID, ReqID, taken, send, prodSeqIDs, ctxDone,
                   notProducer>>

\* Producer.Close, lines 189-198: the select, the deferred cancel and unlock
CloseWait(c) ==
    /\ close[c].pc = "wait"
    /\ \/ /\ ctxDone[CloseCall(c)]
          /\ close' = [close EXCEPT ![c] = [@ EXCEPT !.pc = "done", !.err = ErrCtx]]
          /\ UNCHANGED <<IsClosed, Closedc>>
       \/ /\ Offered(CloseCall(c), "reqIDs")
          /\ IsClosed' = TRUE
          /\ Closedc' = Closedc + 1
          /\ close' = [close EXCEPT ![c] =
                         [@ EXCEPT !.pc = "done", !.got = reader.f, !.err = ErrNil]]
    /\ reqIDs' = Cancel(reqIDs, close[c].reqid, CloseCall(c))
    /\ reader' = ReaderAfterCancel(CloseCall(c))
    /\ Mu' = NoCall
    /\ UNCHANGED <<SeqID, ReqID, taken, send, prodSeqIDs, Frames, ctxDone,
                   notProducer>>

\* HandleCloseProducer without its closed check
HandleCloseProducer_NoCheck ==
    /\ reader.pc = "closeProducer"
    /\ Mu = NoCall
    /\ IsClosed' = TRUE
    /\ Closedc' = Closedc + 1
    /\ reader' = ReaderIdle
    /\ UNCHANGED <<Mu, SeqID, ReqID, taken, send, close, prodSeqIDs, reqIDs, Frames,
                   ctxDone, notProducer>>

\* Producer.HandleCloseProducer, lines 209-221, run by the reader task once
\* it gets p.Mu
HandleCloseProducer ==
    /\ reader.pc = "closeProducer"
    /\ Mu = NoCall
    /\ IF IsClosed
       THEN UNCHANGED <<IsClosed, Closedc>>
       ELSE /\ IsClosed' = TRUE
            /\ Closedc' = Closedc + 1
    /\ reader' = ReaderIdle
    /\ UNCHANGED <<Mu, SeqID, ReqID, taken, send, close, prodSeqIDs, reqIDs, Frames,
                   ctxDone, notProducer>>

\* the calls blocked in their select
Waiting(call) ==
    CASE call[1] = "send" -> send[call[2]].pc = "wait"
      [] call[1] = "close" -> close[call[2]].pc = "wait"
      [] OTHER -> connect[call[2]].pc = "wait"

\* the context of a call becomes done (cancellation or deadline); a context
\* is looked at in the select only, so it ends while the call waits
CtxDone(call) ==
    /\ ~ctxDone[call]
    /\ Waiting(call)
    /\ ctxDone' = [ctxDone EXCEPT ![call] = TRUE]
    /\ UNCHANGED <<pVars, kVars, cVars, reqIDs, Frames, reader, restVars>>

\* ------------------------------------------------------------ reader task
SeqIDs == 0 .. NumSend
RequestIDs == InitialReqID .. (InitialReqID + NumClose)

SendReceipts == [type : {"SEND_RECEIPT"}, producerId : {ProducerID},
                 sequenceId : SeqIDs, messageId : ReceiptMessageIds]
SendErrors == {[type |-> "SEND_ERROR", producerId |-> ProducerID, sequenceId |-> s,
                error |-> e, message |-> ErrorMessage(e)] :
                   s \in SeqIDs, e \in ServerErrors}
Successes == [type : {"SUCCESS"}, requestId : RequestIDs]
Errors(ids) == {[type |-> "ERROR", requestId |-> r, error |-> e,
                 message |-> ErrorMessage(e)] : r \in ids, e \in ServerErrors}

\* Dispatcher.NotifyProdSeqIDs: consume the key and hand the frame to its
\* receiver; an unknown key fails with NoHandler and the frame is dropped
NotifyProdSeqIDs(seq, f) ==
    /\ reader.pc = "idle"
    /\ IF seq \in DOMAIN prodSeqIDs
       THEN /\ reader' = [pc |-> "notify", to |-> prodSeqIDs[seq], via |-> "prodSeqIDs",
                            f |-> f]
            /\ prodSeqIDs' = Del(prodSeqIDs, seq)
       ELSE UNCHANGED <<reader, prodSeqIDs>>
    /\ UNCHANGED <<IsClosed, Closedc, Mu, SeqID, ReqID, taken, send, close, reqIDs, Frames,
                   ctxDone, notProducer>>

\* Dispatcher.NotifyReqID: the same for a request-id key
NotifyReqID(id, f) ==
    /\ reader.pc = "idle"
    /\ IF id \in DOMAIN reqIDs
       THEN /\ reader' = [pc |-> "notify", to |-> reqIDs[id], via |-> "reqIDs", f |-> f]
            /\ reqIDs' = Del(reqIDs, id)
       ELSE UNCHANGED <<reader, reqIDs>>
    /\ UNCHANGED <<IsClosed, Closedc, Mu, SeqID, ReqID, taken, send, close, prodSeqIDs,
                   Frames, ctxDone, notProducer>>

\* the router hands CLOSE_PRODUCER to the producer: HandleCloseProducer is
\* called on the reader task and first waits for p.Mu
RouteCloseProducer ==
    /\ reader.pc = "idle"
    /\ reader' = [ReaderIdle EXCEPT !.pc = "closeProducer"]
    /\ UNCHANGED <<pVars, reqIDs, Frames, ctxDone, notProducer>>

\* the router's cases for the frames a producer's broker sends
RouteProducerFrame ==
    \/ \E f \in SendReceipts \cup SendErrors : NotifyProdSeqIDs(f.sequenceId, f)
    \/ \E f \in Successes \cup Errors(RequestIDs) : NotifyReqID(f.requestId, f)
    \/ RouteCloseProducer

\* ------------------------------------------------------------ Connector
\* a Connect call: its place, the frames it handed to the sender, the frame
\* it read from resp or errResp, and what it returned
ConnectIdle == [pc |-> "start", sends |-> 0, got |-> NoFrame, connected |-> "nil",
                err |-> ErrNil]

ConnectOff == [ConnectIdle EXCEPT !.pc = "off"]

ConnectFrame == [type |-> "CONNECT", producerId |-> NoSeq, sequenceId |-> NoSeq,
                 requestId |-> NoSeq]

\* BaseCommand.GetConnected: the CONNECTED body of a frame, nil for a frame
\* of another type
GetConnected(f) == IF f.type = "CONNECTED" THEN f.connected ELSE "nil"

\* the cancel handle of the global slot
CancelGlobal(who) == IF global = who THEN NoCall ELSE global

\* RegisterGlobal taking the slot whoever holds it
ConnectRegisterGlobal_NoCheck(k) ==
    /\ connect[k].pc = "start"
    /\ connect' = [connect EXCEPT ![k] = [@ EXCEPT !.pc = "regErr"]]
    /\ global' = ConnectCall(k)
    /\ UNCHANGED <<reqIDs, Frames, ctxDone, reader, notConnector>>

\* Connector.Connect, lines 59-63: RegisterGlobal
ConnectRegisterGlobal(k) ==
    /\ connect[k].pc = "start"
    /\ IF global # NoCall
       THEN /\ connect' = [connect EXCEPT ![k] =
                             [@ EXCEPT !.pc = "done", !.err = ErrAlreadyRegistered]]
            /\ UNCHANGED global
       ELSE /\ connect' = [connect EXCEPT ![k] = [@ EXCEPT !.pc = "regErr"]]
            /\ global' = ConnectCall(k)
    /\ UNCHANGED <<reqIDs, Frames, ctxDone, reader, notConnector>>

\* Connector.Connect, lines 69-73: RegisterReqID(UndefRequestID); the failure
\* return runs the deferred cancel of the global slot
ConnectRegisterReqID(k) ==
    /\ connect[k].pc = "regErr"
    /\ IF UndefRequestID \in DOMAIN reqIDs
       THEN /\ connect' = [connect EXCEPT ![k] =
                             [@ EXCEPT !.pc = "done", !.err = ErrAlreadyRegistered]]
            /\ global' = CancelGlobal(ConnectCall(k))
            /\ reader' = ReaderAfterCancel(ConnectCall(k))
            /\ UNCHANGED reqIDs
       ELSE /\ connect' = [connect EXCEPT ![k] = [@ EXCEPT !.pc = "send"]]
            /\ reqIDs' = Put(reqIDs, UndefRequestID, ConnectCall(k))
            /\ UNCHANGED <<global, reader>>
    /\ UNCHANGED <<Frames, ctxDone, notConnector>>

\* Connector.Connect, lines 77-104: build CONNECT and SendSimpleCmd, which
\* may fail
ConnectSend(k) ==
    /\ connect[k].pc = "send"
    /\ \E ok \in BOOLEAN :
         IF ok
         THEN /\ Frames' = Append(Frames, ConnectFrame)
              /\ connect' = [connect EXCEPT ![k] =
                               [@ EXCEPT !.pc = "wait", !.sends = @ + 1]]
              /\ UNCHANGED <<global, reqIDs, reader>>
         ELSE /\ connect' = [connect EXCEPT ![k] =
                               [@ EXCEPT !.pc = "done", !.err = ErrSend]]
              /\ global' = CancelGlobal(ConnectCall(k))
              /\ reqIDs' = Cancel(reqIDs, UndefRequestID, ConnectCall(k))
              /\ reader' = ReaderAfterCancel(ConnectCall(k))
              /\ UNCHANGED Frames
    /\ UNCHANGED <<ctxDone, notConnector>>

\* Connector.Connect, lines 112-113: a frame read from resp
ConnectResult(r, f) ==
    [r EXCEPT !.pc = "done", !.got = f, !.connected = GetConnected(f), !.err = ErrNil]

\* Connector.Connect, lines 115-117: a frame read from errResp
ConnectErrResult(r, f) ==
    [r EXCEPT !.pc = "done", !.got = f, !.err = Errorf(f.error, f.message)]

\* Connector.Connect, lines 108-118: the select, then the deferred cancels
ConnectWait(k) ==
    /\ connect[k].pc = "wait"
    /\ \E branch \in {"ctx", "resp", "errResp"} :
         CASE branch = "ctx" ->
                /\ ctxDone[ConnectCall(k)]
                /\ connect' = [connect EXCEPT ![k] =
                                 [@ EXCEPT !.pc = "done", !.err = ErrCtx]]
           [] branch = "resp" ->
                /\ Offered(ConnectCall(k), "global")
                /\ connect' = [connect EXCEPT ![k] = ConnectResult(@, reader.f)]
           [] OTHER ->
                /\ Offered(ConnectCall(k), "reqIDs")
                /\ connect' = [connect EXCEPT ![k] = ConnectErrResult(@, reader.f)]
    /\ global' = CancelGlobal(ConnectCall(k))
    /\ reqIDs' = Cancel(reqIDs, UndefRequestID, ConnectCall(k))
    /\ reader' = ReaderAfterCancel(ConnectCall(k))
    /\ UNCHANGED <<Frames, ctxDone, notConnector>>

\* frames a broker may answer CONNECT with
ConnectedFrames == {[type |-> "CONNECTED", connected |-> v] : v \in {"v12", "v13"}}
ConnectErrors == Errors({UndefRequestID})

\* Dispatcher.NotifyGlobal: consume the global slot and hand the frame to its
\* receiver; with no slot held it fails with NoHandler
NotifyGlobal(f) ==
    /\ reader.pc = "idle"
    /\ IF global # NoCall
       THEN /\ reader' = [pc |-> "notify", to |-> global, via |-> "global", f |-> f]
            /\ global' = NoCall
       ELSE UNCHANGED <<reader, global>>
    /\ UNCHANGED <<connect, reqIDs, Frames, ctxDone, notConnector>>

\* the router: CONNECTED goes to the global slot
RouteConnected == \E f \in ConnectedFrames : NotifyGlobal(f)

\* the router: an ERROR with an undefined request-id goes to the global slot,
\* any other ERROR to its request-id
RouteError(f) ==
    IF f.requestId = UndefRequestID
    THEN NotifyGlobal(f)
    ELSE NotifyReqID(f.requestId, f)

\* ------------------------------------------------------------ Conn
\* Close is called by NumConnClose goroutines and, as the last call, by Read
ReadClose == NumConnClose + 1
ConnClosers == 1 .. ReadClose

\* a Conn.Close call: its place, whether it called Rc.Close, what it returned
ConnCloseIdle == [pc |-> "start", touched |-> FALSE, err |-> ErrNil]
ConnCloseOff == [ConnCloseIdle EXCEPT !.pc = "off"]

\* errors of the socket
ErrRcClose == "close failed"
DecodeErrors == {"EOF", "checksum mismatch"}
ErrUseOfClosed == "use of closed network connection"

\* Conn.Close without its closed check
ConnCloseLock_NoCheck(x) ==
    /\ connClose[x].pc = "start"
    /\ Cmu = NoCall
    /\ connClose' = [connClose EXCEPT ![x] = [@ EXCEPT !.pc = "locked"]]
    /\ Cmu' = <<"connClose", x>>
    /\ UNCHANGED <<ConnIsClosed, ConnClosedc, RcCloses, read, notConn>>

\* Conn.Close, lines 172-177: take Cmu; on a closed connection return nil
ConnCloseLock(x) ==
    /\ connClose[x].pc = "start"
    /\ Cmu = NoCall
    /\ IF ConnIsClosed
       THEN /\ connClose' = [connClose EXCEPT ![x] =
                               [@ EXCEPT !.pc = "done", !.err = ErrNil]]
            /\ UNCHANGED Cmu
       ELSE /\ connClose' = [connClose EXCEPT ![x] = [@ EXCEPT !.pc = "locked"]]
            /\ Cmu' = <<"connClose", x>>
    /\ UNCHANGED <<ConnIsClosed, ConnClosedc, RcCloses, read, notConn>>

\* Conn.Close, line 179: err := c.Rc.Close()
ConnCloseRc(x) ==
    /\ connClose[x].pc = "locked"
    /\ \E e \in {ErrNil, ErrRcClose} :
         connClose' = [connClose EXCEPT ![x] =
                         [@ EXCEPT !.pc = "rc", !.touched = TRUE, !.err = e]]
    /\ RcCloses' = RcCloses + 1
    /\ UNCHANGED <<ConnIsClosed, ConnClosedc, Cmu, read, notConn>>

\* Conn.Close, line 180: close(c.Closedc)
ConnCloseSignal(x) ==
    /\ connClose[x].pc = "rc"
    /\ ConnClosedc' = ConnClosedc + 1
    /\ connClose' = [connClose EXCEPT ![x] = [@ EXCEPT !.pc = "signalled"]]
    /\ UNCHANGED <<ConnIsClosed, Cmu, RcCloses, read, notConn>>

\* Conn.Close, lines 181-183: c.IsClosed = true, return err, deferred unlock
ConnCloseFlag(x) ==
    /\ connClose[x].pc = "signalled"
    /\ ConnIsClosed' = TRUE
    /\ Cmu' = NoCall
    /\ connClose' = [connClose EXCEPT ![x] = [@ EXCEPT !.pc = "done"]]
    /\ UNCHANGED <<ConnClosedc, RcCloses, read, notConn>>

\* Conn.Read: its place, the frames handed to the handler, the error returned
ReadIdle == [pc |-> "decode", handled |-> 0, err |-> ErrNil]

\* Read returning the decode error without calling Close
ReadDecode_NoClose ==
    /\ read.pc = "decode"
    /\ \/ /\ RcCloses = 0
          /\ read.handled < MaxFrames
          /\ read' = [read EXCEPT !.handled = @ + 1]
       \/ \E e \in (IF RcCloses = 0 THEN DecodeErrors ELSE {ErrUseOfClosed}) :
            read' = [read EXCEPT !.pc = "returned", !.err = e]
    /\ UNCHANGED <<ConnIsClosed, ConnClosedc, Cmu, RcCloses, connClose, notConn>>

\* Conn.Read, lines 200-213: one turn of the loop.  Decode yields a frame,
\* which goes to the handler, or fails; on a closed socket it can only fail.
\* On failure Read calls c.Close()
ReadDecode ==
    /\ read.pc = "decode"
    /\ \/ /\ RcCloses = 0
          /\ read.handled < MaxFrames
          /\ read' = [read EXCEPT !.handled = @ + 1]
          /\ UNCHANGED connClose
       \/ /\ \E e \in (IF RcCloses = 0 THEN DecodeErrors ELSE {ErrUseOfClosed}) :
               read' = [read EXCEPT !.pc = "closing", !.err = e]
          /\ connClose' = [connClose EXCEPT ![ReadClose] = ConnCloseIdle]
    /\ UNCHANGED <<ConnIsClosed, ConnClosedc, Cmu, RcCloses, notConn>>

\* Conn.Read, line 209: return err once c.Close() has returned
ReadReturn ==
    /\ read.pc = "closing"
    /\ connClose[ReadClose].pc = "done"
    /\ read' = [read EXCEPT !.pc = "returned"]
    /\ UNCHANGED <<ConnIsClosed, ConnClosedc, Cmu, RcCloses, connClose, notConn>>

\* ------------------------------------------------------------ frame codec
\* Sizes run up to 2^32 and past it, beyond the integers TLC computes with:
\* a natural number n is kept as [hi, lo] with n = hi * 2^16 + lo.
Half == 256 * 256
Wide(n) == [hi |-> n \div Half, lo |-> n % Half]
WAdd(a, b) == [hi |-> a.hi + b.hi + ((a.lo + b.lo) \div Half),
               lo |-> (a.lo + b.lo) % Half]
WGreater(a, b) == a.hi > b.hi \/ (a.hi = b.hi /\ a.lo > b.lo)
\* the value of a size known to be small
Narrow(a) == a.hi * Half + a.lo
\* the conversion uint32(n) and the wrap-around of uint32 arithmetic
Uint32(a) == [hi |-> a.hi % Half, lo |-> a.lo]
WZero == Wide(0)

\* MaxFrameSize, 5 MiB
MaxFrameSize == Wide(5 * 1024 * 1024)
magicNumber == <<14, 1>>

Bytes == 0 .. 255
Min(a, b) == IF a < b THEN a ELSE b

\* binary.Write(w, binary.BigEndian, uint32) and binary.BigEndian.Uint32
PutUint32(a) == <<a.hi \div 256, a.hi % 256, a.lo \div 256, a.lo % 256>>
GetUint32(b, i) == [hi |-> b[i] * 256 + b[i + 1], lo |-> b[i + 2] * 256 + b[i + 3]]

\* bit k (given by its weight) of a XOR b, and the XOR of two 16-bit numbers
XorBit(a, b, k) == (((a \div k) + (b \div k)) % 2) * k
Xor(a, b) ==
    (((XorBit(a, b, 1) + XorBit(a, b, 2)) + (XorBit(a, b, 4) + XorBit(a, b, 8)))
       + ((XorBit(a, b, 16) + XorBit(a, b, 32)) + (XorBit(a, b, 64) + XorBit(a, b, 128))))
    + (((XorBit(a, b, 256) + XorBit(a, b, 512))
          + (XorBit(a, b, 1024) + XorBit(a, b, 2048)))
       + ((XorBit(a, b, 4096) + XorBit(a, b, 8192))
          + (XorBit(a, b, 16384) + XorBit(a, b, 32768))))

\* frameChecksum: CRC32-C (Castagnoli), reflected polynomial 0x82F63B78, a
\* 32-bit register kept as two 16-bit halves
CastagnoliPoly == [hi |-> 130 * 256 + 246, lo |-> 59 * 256 + 120]
CrcShift(c, n) == [hi |-> c.hi \div n, lo |-> (c.lo \div n) + (c.hi % n) * (Half \div n)]
CrcXor(c, d) == [hi |-> Xor(c.hi, d.hi), lo |-> Xor(c.lo, d.lo)]
RECURSIVE CrcBits(_, _)
CrcBits(c, n) ==
    IF n = 0 \/ c = WZero THEN c
    ELSE CrcBits(IF c.lo % 2 = 1 THEN CrcXor(CrcShift(c, 2), CastagnoliPoly)
                 ELSE CrcShift(c, 2), n - 1)
\* crc32.MakeTable(crc32.Castagnoli), tabulated once
crcTable == [b \in Bytes |-> CrcBits([hi |-> 0, lo |-> b], 8)] @@ <<>>
RECURSIVE CrcUpdate(_, _, _)
CrcUpdate(c, bytes, i) ==
    IF i > Len(bytes) \/ c.lo < 0 THEN c
    ELSE CrcUpdate(CrcXor(crcTable[Xor(c.lo % 256, bytes[i])], CrcShift(c, 256)),
                   bytes, i + 1)
CrcOnes == [hi |-> Half - 1, lo |-> Half - 1]
\* frameChecksum.compute over the bytes written to it, as 4 big-endian bytes
Checksum(bytes) == PutUint32(CrcXor(CrcUpdate(CrcOnes, bytes, 1), CrcOnes))

\* ---- protobuf wire format (proto.Marshal, proto.Unmarshal)
\* a message is the sequence of its fields in field order; a field is
\* [num, wt, val]: wire type 0 holds <<n>>, the other wire types raw bytes
RECURSIVE Varint(_)
Varint(n) == IF n < 128 THEN <<n>> ELSE <<128 + (n % 128)>> \o Varint(n \div 128)

MarshalField(fd) ==
    Varint(fd.num * 8 + fd.wt)
      \o (IF fd.wt = 0 THEN Varint(fd.val[1])
          ELSE IF fd.wt = 2 THEN Varint(Len(fd.val)) \o fd.val
          ELSE fd.val)

RECURSIVE Marshal(_)
Marshal(m) == IF m = <<>> THEN <<>> ELSE MarshalField(Head(m)) \o Marshal(Tail(m))

\* read a varint at b[i]: [ok, val, next]
RECURSIVE ReadVarint(_, _)
ReadVarint(b, i) ==
    IF i > Len(b) THEN [ok |-> FALSE, val |-> 0, next |-> i]
    ELSE IF b[i] < 128 THEN [ok |-> TRUE, val |-> b[i], next |-> i + 1]
    ELSE LET r == ReadVarint(b, i + 1)
         IN  [ok |-> r.ok, val |-> (b[i] - 128) + 128 * r.val, next |-> r.next]

ParseFail == [ok |-> FALSE, fields |-> <<>>, next |-> 0]

\* read fields from b[i] on, to the end of b or, inside group `stop`, to its
\* end-group tag: [ok, fields, next]
RECURSIVE ParseFields(_, _, _)
ParseFields(b, i, stop) ==
    IF i > Len(b)
    THEN (IF stop = 0 THEN [ok |-> TRUE, fields |-> <<>>, next |-> i] ELSE ParseFail)
    ELSE
    LET tag == ReadVarint(b, i)
        num == tag.val \div 8
        wt == tag.val % 8
        \* the field's value: [ok, val, next]
        value ==
            CASE wt = 0 -> LET v == ReadVarint(b, tag.next)
                           IN  [ok |-> v.ok, val |-> <<v.val>>, next |-> v.next]
              [] wt = 1 -> [ok |-> tag.next + 7 <= Len(b),
                            val |-> SubSeq(b, tag.next, Min(Len(b), tag.next + 7)),
                            next |-> tag.next + 8]
              [] wt = 2 -> LET n == ReadVarint(b, tag.next)
                           IN  [ok |-> n.ok /\ n.next + n.val - 1 <= Len(b),
                                val |-> IF n.ok
                                        THEN SubSeq(b, n.next,
                                                    Min(Len(b), n.next + n.val - 1))
                                        ELSE <<>>,
                                next |-> n.next + n.val]
              [] wt = 3 -> LET g == ParseFields(b, tag.next, num)
                           IN  [ok |-> g.ok,
                                val |-> IF g.ok THEN SubSeq(b, tag.next, g.next - 1)
                                        ELSE <<>>,
                                next |-> g.next]
              [] wt = 5 -> [ok |-> tag.next + 3 <= Len(b),
                            val |-> SubSeq(b, tag.next, Min(Len(b), tag.next + 3)),
                            next |-> tag.next + 4]
              [] OTHER -> [ok |-> FALSE, val |-> <<>>, next |-> 0]
    IN  IF ~tag.ok \/ num = 0 THEN ParseFail
        ELSE IF wt = 4
        THEN (IF stop = num THEN [ok |-> TRUE, fields |-> <<>>, next |-> tag.next]
              ELSE ParseFail)
        ELSE IF ~value.ok THEN ParseFail
        ELSE LET rest == ParseFields(b, value.next, stop)
             IN  IF ~rest.ok THEN ParseFail
                 ELSE [ok |-> TRUE,
                       fields |-> <<[num |-> num, wt |-> wt, val |-> value.val]>>
                                    \o rest.fields,
                       next |-> rest.next]

\* proto.Unmarshal into a message whose required fields are `required`
\* (field number -> wire type): it fails on malformed input and when a
\* required field is not set
Unmarshal(b, required) ==
    LET p == ParseFields(b, 1, 0)
    IN  IF ~p.ok THEN [ok |-> FALSE, msg |-> <<>>]
        ELSE IF \E n \in DOMAIN required :
                  ~\E k \in DOMAIN p.fields :
                      p.fields[k].num = n /\ p.fields[k].wt = required[n]
        THEN [ok |-> FALSE, msg |-> <<>>]
        ELSE [ok |-> TRUE, msg |-> p.fields]

\* required fields of api.BaseCommand (type) and of api.MessageMetadata
\* (producer_name, sequence_id, publish_time)
BaseCommandRequired == (1 :> 0)
MessageMetadataRequired == (1 :> 2) @@ (2 :> 0) @@ (3 :> 0)

\* ---- Frame.Encode and Frame.Decode
\* a Frame: BaseCmd, Metadata (nil when hasMeta is false) and Payload
NoMessage == <<>>
SimpleFrame(cmd) == [cmd |-> cmd, hasMeta |-> FALSE, meta |-> NoMessage, payload |-> <<>>]
PayloadFrame(cmd, meta, payload) ==
    [cmd |-> cmd, hasMeta |-> TRUE, meta |-> meta, payload |-> payload]

ErrFrameTooLarge == "encoded frame size is larger than max allowed frame size"
ErrEOF == "unexpected EOF"
ErrFrameSize == "frame size cannot be greater than max frame size"
ErrCmdSize == "frame command size cannot be greater than max frame size"
ErrMetadataSize == "frame metadata size cannot be greater than max frame size"
ErrUnmarshal == "proto: cannot unmarshal"
ErrChecksum == "checksum mismatch"

\* Frame.Encode, lines 1022-1045: the sizes, computed in uint32, and the
\* guard, from the lengths of the encoded command, the encoded metadata and
\* the payload
EncodeSizes(cmdLen, hasMeta, metaLen, payLen) ==
    LET cmdSize == Uint32(cmdLen)
        metadataSize == IF hasMeta THEN Uint32(metaLen) ELSE WZero
        simple == metadataSize = WZero
        totalSize ==
            IF simple THEN Uint32(WAdd(cmdSize, Wide(4)))
            ELSE Uint32(WAdd(WAdd(cmdSize, Wide(4)),
                             WAdd(WAdd(WAdd(Wide(6), metadataSize), Wide(4)),
                                  Uint32(payLen))))
        frameSize == Uint32(WAdd(totalSize, Wide(4)))
    IN  [cmdSize |-> cmdSize, metadataSize |-> metadataSize, simple |-> simple,
         totalSize |-> totalSize, tooLarge |-> WGreater(frameSize, MaxFrameSize)]

\* Frame.Encode, lines 1048-1106: the number of bytes the writes put out
EncodeWrites(cmdLen, hasMeta, metaLen, payLen) ==
    LET z == EncodeSizes(cmdLen, hasMeta, metaLen, payLen)
    IN  IF z.simple THEN WAdd(Wide(8), cmdLen)
        ELSE WAdd(WAdd(Wide(8), cmdLen), WAdd(WAdd(Wide(10), metaLen), payLen))

\* Encode with the checksum taken over the metadata alone
Encode_ChecksumWithoutPayload(f) ==
    LET encodedBaseCmd == Marshal(f.cmd)
        encodedMetadata == IF f.hasMeta THEN Marshal(f.meta) ELSE <<>>
        z == EncodeSizes(Wide(Len(encodedBaseCmd)), f.hasMeta,
                         Wide(Len(encodedMetadata)), Wide(Len(f.payload)))
        summed == PutUint32(z.metadataSize) \o encodedMetadata
    IN  IF z.tooLarge THEN [err |-> ErrFrameTooLarge, bytes |-> <<>>]
        ELSE [err |-> ErrNil,
              bytes |-> PutUint32(z.totalSize) \o PutUint32(z.cmdSize) \o encodedBaseCmd
                          \o (IF z.simple THEN <<>>
                              ELSE magicNumber \o Checksum(summed)
                                     \o PutUint32(z.metadataSize) \o encodedMetadata
                                     \o f.payload)]

\* Frame.Encode: [err, bytes], the error returned and the bytes written to w
Encode(f) ==
    LET encodedBaseCmd == Marshal(f.cmd)
        encodedMetadata == IF f.hasMeta THEN Marshal(f.meta) ELSE <<>>
        z == EncodeSizes(Wide(Len(encodedBaseCmd)), f.hasMeta,
                         Wide(Len(encodedMetadata)), Wide(Len(f.payload)))
        summed == PutUint32(z.metadataSize) \o encodedMetadata \o f.payload
    IN  IF z.tooLarge THEN [err |-> ErrFrameTooLarge, bytes |-> <<>>]
        ELSE [err |-> ErrNil,
              bytes |-> PutUint32(z.totalSize) \o PutUint32(z.cmdSize) \o encodedBaseCmd
                          \o (IF z.simple THEN <<>>
                              ELSE magicNumber \o Checksum(summed)
                                     \o PutUint32(z.metadataSize) \o encodedMetadata
                                     \o f.payload)]

DecodeFail(e) == [err |-> e, frame |-> SimpleFrame(NoMessage)]

\* Decode reading the checksum without comparing it
DecodePayload_NoVerify(r, cmd, cmdEnd, end, frameEnd) ==
    IF cmdEnd + 4 > end THEN DecodeFail(ErrEOF)
    ELSE
    LET hasMagic == r[cmdEnd + 1] = magicNumber[1] /\ r[cmdEnd + 2] = magicNumber[2]
        sizeAt == IF hasMagic THEN cmdEnd + 7 ELSE cmdEnd + 1
    IN  IF sizeAt + 3 > end THEN DecodeFail(ErrEOF)
        ELSE
        LET metadataSize == GetUint32(r, sizeAt)
        IN  IF WGreater(metadataSize, MaxFrameSize) THEN DecodeFail(ErrMetadataSize)
            ELSE
            LET metaEnd == sizeAt + 3 + Narrow(metadataSize)
            IN  IF metaEnd > end THEN DecodeFail(ErrEOF)
                ELSE
                LET meta == Unmarshal(SubSeq(r, sizeAt + 4, metaEnd),
                                      MessageMetadataRequired)
                IN  IF ~meta.ok THEN DecodeFail(ErrUnmarshal)
                    ELSE IF frameEnd > end THEN DecodeFail(ErrEOF)
                    ELSE [err |-> ErrNil,
                          frame |-> PayloadFrame(cmd, meta.msg,
                                                 SubSeq(r, metaEnd + 1, frameEnd))]

\* Frame.Decode, lines 946-1011: what follows the command in a payload
\* frame.  `end` is the last byte the limited reader can deliver, `frameEnd`
\* the last byte of the frame by its totalSize
DecodePayload(r, cmd, cmdEnd, end, frameEnd) ==
    IF cmdEnd + 4 > end THEN DecodeFail(ErrEOF)
    ELSE
    LET hasMagic == r[cmdEnd + 1] = magicNumber[1] /\ r[cmdEnd + 2] = magicNumber[2]
        sizeAt == IF hasMagic THEN cmdEnd + 7 ELSE cmdEnd + 1
    IN  IF sizeAt + 3 > end THEN DecodeFail(ErrEOF)
        ELSE
        LET expectedChksum == IF hasMagic THEN SubSeq(r, cmdEnd + 3, cmdEnd + 6) ELSE <<>>
            metadataSize == GetUint32(r, sizeAt)
        IN  IF WGreater(metadataSize, MaxFrameSize) THEN DecodeFail(ErrMetadataSize)
            ELSE
            LET metaEnd == sizeAt + 3 + Narrow(metadataSize)
            IN  IF metaEnd > end THEN DecodeFail(ErrEOF)
                ELSE
                LET meta == Unmarshal(SubSeq(r, sizeAt + 4, metaEnd),
                                      MessageMetadataRequired)
                    lastRead == IF frameEnd > metaEnd THEN frameEnd ELSE metaEnd
                    computed == IF hasMagic THEN Checksum(SubSeq(r, sizeAt, lastRead))
                                ELSE <<>>
                IN  IF ~meta.ok THEN DecodeFail(ErrUnmarshal)
                    ELSE IF frameEnd > end THEN DecodeFail(ErrEOF)
                    ELSE IF computed # expectedChksum THEN DecodeFail(ErrChecksum)
                    ELSE [err |-> ErrNil,
                          frame |-> PayloadFrame(cmd, meta.msg,
                                                 SubSeq(r, metaEnd + 1, frameEnd))]

\* Frame.Decode on the bytes r of the reader: [err, frame]
Decode(r) ==
    IF Len(r) < 4 THEN DecodeFail(ErrEOF)
    ELSE
    LET totalSize == GetUint32(r, 1)
    IN  IF WGreater(WAdd(totalSize, Wide(4)), MaxFrameSize) THEN DecodeFail(ErrFrameSize)
        ELSE
        LET frameEnd == 4 + Narrow(totalSize)
            end == Min(Len(r), frameEnd)
        IN  IF end < 8 THEN DecodeFail(ErrEOF)
            ELSE
            LET cmdSize == GetUint32(r, 5)
            IN  IF WGreater(cmdSize, MaxFrameSize) THEN DecodeFail(ErrCmdSize)
                ELSE
                LET cmdEnd == 8 + Narrow(cmdSize)
                    cmd == Unmarshal(SubSeq(r, 9, cmdEnd), BaseCommandRequired)
                IN  IF cmdEnd > end THEN DecodeFail(ErrEOF)
                    ELSE IF ~cmd.ok THEN DecodeFail(ErrUnmarshal)
                    ELSE IF frameEnd <= cmdEnd
                    THEN [err |-> ErrNil, frame |-> SimpleFrame(cmd.msg)]
                    ELSE DecodePayload(r, cmd.msg, cmdEnd, end, frameEnd)

\* Frame.Equal
FrameEqual(f, g) ==
    /\ f.cmd = g.cmd
    /\ f.hasMeta = g.hasMeta
    /\ f.meta = g.meta
    /\ f.payload = g.payload

\* ---- the frames and sizes the codec is exercised on
\* BaseCommand{type: PING, ping: {}} and
\* BaseCommand{type: SEND, send: {producer_id, sequence_id}}
PingCmd == <<[num |-> 1, wt |-> 0, val |-> <<18>>], [num |-> 18, wt |-> 2, val |-> <<>>]>>
SendCmd(seq) ==
    <<[num |-> 1, wt |-> 0, val |-> <<6>>],
      [num |-> 6, wt |-> 2,
       val |-> Marshal(<<[num |-> 1, wt |-> 0, val |-> <<ProducerID>>],
                         [num |-> 2, wt |-> 0, val |-> <<seq>>]>>)]>>
\* MessageMetadata{producer_name, sequence_id, publish_time}
Metadata(name, seq, time) ==
    <<[num |-> 1, wt |-> 2, val |-> name],
      [num |-> 2, wt |-> 0, val |-> <<seq>>],
      [num |-> 3, wt |-> 0, val |-> <<time>>]>>

RECURSIVE SeqsUpTo(_, _)
SeqsUpTo(S, n) ==
    IF n = 0 THEN {<<>>}
    ELSE LET shorter == SeqsUpTo(S, n - 1)
         IN  shorter \cup {Append(q, x) : q \in shorter, x \in S}

PayloadBytes == {0, 14, 255}
Payloads == SeqsUpTo(PayloadBytes, MaxPayloadLen)
Commands == {PingCmd, SendCmd(0), SendCmd(300)}
Metadatas == {Metadata(<<112>>, 0, 1), Metadata(<<112, 49>>, 300, 77)}
SimpleFrames == {SimpleFrame(c) : c \in Commands}
PayloadFrames == {PayloadFrame(c, m, p) : c \in Commands, m \in Metadatas, p \in Payloads}

\* one bit of a byte flipped, or all of them
CorruptMasks == {1, 2, 4, 8, 16, 32, 64, 128, 255}

\* the positions of the metadata and the payload in an encoded payload frame
MetadataAt(f) == 8 + Len(Marshal(f.cmd)) + 10 + 1
Corruptible(f) == MetadataAt(f) .. (MetadataAt(f) + Len(Marshal(f.meta)) + Len(f.payload) - 1)

NoBuf == [err |-> ErrNil, bytes |-> <<>>]

\* f.Encode(w) on an empty buffer w
FrameEncode ==
    /\ fpc = "new"
    /\ buf' = Encode(frame)
    /\ fpc' = "encoded"
    /\ UNCHANGED <<frame, corrupted, decoded, sizes, sized, notCodec>>

\* one byte of the metadata or of the payload changes after encoding
FrameCorrupt ==
    /\ fpc = "encoded"
    /\ buf.err = ErrNil
    /\ frame.hasMeta
    /\ \E i \in Corruptible(frame), m \in CorruptMasks :
         /\ buf' = [buf EXCEPT !.bytes[i] = Xor(@, m)]
         /\ corrupted' = i
    /\ fpc' = "corrupted"
    /\ UNCHANGED <<frame, decoded, sizes, sized, notCodec>>

\* f.Decode(r) on a reader of the buffer's bytes, into a new Frame
FrameDecode ==
    /\ fpc \in {"encoded", "corrupted"}
    /\ buf.err = ErrNil
    /\ decoded' = Decode(buf.bytes)
    /\ fpc' = "decoded"
    /\ UNCHANGED <<frame, buf, corrupted, sizes, sized, notCodec>>

InitNoCodec ==
    /\ frame = SimpleFrame(NoMessage)
    /\ buf = NoBuf
    /\ corrupted = 0
    /\ decoded = DecodeFail(ErrNil)
    /\ fpc = "off"
    /\ sizes = [cmd |-> WZero, hasMeta |-> FALSE, meta |-> WZero, payload |-> WZero]
    /\ sized = [pc |-> "off", err |-> ErrNil, written |-> WZero]

\* lengths around a base value
Around(base) == {WAdd(base, Wide(d)) : d \in 0 .. SizeSpread}
\* 2^32 - 64
NearUint32Max == [hi |-> Half - 1, lo |-> Half - 64]
CmdLens == {Wide(4), Wide(9)}
MetaLens == {Wide(8), Wide(12)}
PayloadLens ==
    Around(WZero) \cup Around(Wide(5 * 1024 * 1024 - 64)) \cup Around(NearUint32Max)

\* f.Encode(w) on a frame given by the lengths of its parts: the error, and
\* the number of bytes written to w
EncodeSized ==
    /\ sized.pc = "new"
    /\ LET z == EncodeSizes(sizes.cmd, sizes.hasMeta, sizes.meta, sizes.payload)
       IN  sized' = IF z.tooLarge
                    THEN [pc |-> "done", err |-> ErrFrameTooLarge, written |-> WZero]
                    ELSE [pc |-> "done", err |-> ErrNil,
                          written |-> EncodeWrites(sizes.cmd, sizes.hasMeta,
                                                   sizes.meta, sizes.payload)]
    /\ UNCHANGED <<frame, buf, corrupted, decoded, fpc, sizes, notCodec>>

\* ------------------------------------------------------------ Conn, writing
Writers == 1 .. NumWrite
bufLimit == 50
smalleBufLimit == 1000
\* smallCmdType: PING, PONG, ACK, CONNECT, FLOW, SUBSCRIBE, LOOKUP
SmallCmdTypes == {18, 19, 10, 2, 11, 4, 23}
smallCmdType(f) == f.cmd[1].val[1] \in SmallCmdTypes

\* a SendSimpleCmd or SendPayloadCmd call: its frame, its place in
\* writeFrame, the buffer b, the bytes of b the socket has taken, the error
WriteIdle(f) == [pc |-> "start", frame |-> f, b |-> <<>>, sent |-> 0, err |-> ErrNil]
WriteOff == [WriteIdle(SimpleFrame(PingCmd)) EXCEPT !.pc = "off"]
ErrWrite == "write: broken pipe"

\* the frames written: SendSimpleCmd(PING) and SendPayloadCmd(SEND, ...)
WriteFrames ==
    {SimpleFrame(PingCmd),
     PayloadFrame(SendCmd(0), Metadata(<<112>>, 0, 1), <<14>>)}

\* the buffers of each pool the calls on this connection hold
HeldBy(w) == write[w].pc \in {"encode", "lock", "write", "unlock"}
HeldLarge == Cardinality({w \in Writers : HeldBy(w) /\ ~smallCmdType(write[w].frame)})
HeldSmall == Cardinality({w \in Writers : HeldBy(w) /\ smallCmdType(write[w].frame)})

\* getBuf or getSmallBuf of a frame write on another connection of the
\* process: the pools are package variables
OtherGetBuf(small) ==
    /\ IF small
       THEN /\ smallBufPoolChan < smalleBufLimit
            /\ smallBufPoolChan' = smallBufPoolChan + 1
            /\ UNCHANGED bufPoolChan
       ELSE /\ bufPoolChan < bufLimit
            /\ bufPoolChan' = bufPoolChan + 1
            /\ UNCHANGED smallBufPoolChan
    /\ UNCHANGED <<Wmu, W, broken, write, notWriter>>

\* putBuf or putSmallBuf of a frame write on another connection
OtherPutBuf(small) ==
    /\ IF small
       THEN /\ smallBufPoolChan - HeldSmall > smalleBufLimit - PoolSlack
            /\ smallBufPoolChan' = smallBufPoolChan - 1
            /\ UNCHANGED bufPoolChan
       ELSE /\ bufPoolChan - HeldLarge > bufLimit - PoolSlack
            /\ bufPoolChan' = bufPoolChan - 1
            /\ UNCHANGED smallBufPoolChan
    /\ UNCHANGED <<Wmu, W, broken, write, notWriter>>

\* getBuf without the send on the pool's channel
WriteGetBuf_NoLimit(w) ==
    /\ write[w].pc = "start"
    /\ IF smallCmdType(write[w].frame)
       THEN /\ smallBufPoolChan' = smallBufPoolChan + 1
            /\ UNCHANGED bufPoolChan
       ELSE /\ bufPoolChan' = bufPoolChan + 1
            /\ UNCHANGED smallBufPoolChan
    /\ write' = [write EXCEPT ![w] = [@ EXCEPT !.pc = "encode"]]
    /\ UNCHANGED <<Wmu, W, broken, notWriter>>

\* writeFrame, lines 295-301: getSmallBuf or getBuf, which block while the
\* pool's limit of buffers is out
WriteGetBuf(w) ==
    /\ write[w].pc = "start"
    /\ IF smallCmdType(write[w].frame)
       THEN /\ smallBufPoolChan < smalleBufLimit
            /\ smallBufPoolChan' = smallBufPoolChan + 1
            /\ UNCHANGED bufPoolChan
       ELSE /\ bufPoolChan < bufLimit
            /\ bufPoolChan' = bufPoolChan + 1
            /\ UNCHANGED smallBufPoolChan
    /\ write' = [write EXCEPT ![w] = [@ EXCEPT !.pc = "encode"]]
    /\ UNCHANGED <<Wmu, W, broken, notWriter>>

\* the deferred putSmallBuf or putBuf
PutBufs(w) ==
    IF smallCmdType(write[w].frame)
    THEN smallBufPoolChan' = smallBufPoolChan - 1 /\ UNCHANGED bufPoolChan
    ELSE bufPoolChan' = bufPoolChan - 1 /\ UNCHANGED smallBufPoolChan

\* writeFrame, lines 303-305: f.Encode(b), outside the lock; on an error
\* writeFrame returns it
WriteEncode(w) ==
    /\ write[w].pc = "encode"
    /\ LET e == Encode(write[w].frame)
       IN  IF e.err # ErrNil
           THEN /\ write' = [write EXCEPT ![w] = [@ EXCEPT !.pc = "done", !.err = e.err]]
                /\ PutBufs(w)
           ELSE /\ write' = [write EXCEPT ![w] = [@ EXCEPT !.pc = "lock", !.b = e.bytes]]
                /\ UNCHANGED <<bufPoolChan, smallBufPoolChan>>
    /\ UNCHANGED <<Wmu, W, broken, notWriter>>

\* writeFrame without the mutex: the call goes on to write at once
WriteLock_NoLock(w) ==
    /\ write[w].pc = "lock"
    /\ Wmu' = <<"write", w>>
    /\ write' = [write EXCEPT ![w] = [@ EXCEPT !.pc = "write"]]
    /\ UNCHANGED <<W, broken, bufPoolChan, smallBufPoolChan, notWriter>>

\* writeFrame, line 307: c.Wmu.Lock()
WriteLock(w) ==
    /\ write[w].pc = "lock"
    /\ Wmu = NoCall
    /\ Wmu' = <<"write", w>>
    /\ write' = [write EXCEPT ![w] = [@ EXCEPT !.pc = "write"]]
    /\ UNCHANGED <<W, broken, bufPoolChan, smallBufPoolChan, notWriter>>

\* writeFrame, line 308: b.WriteTo(c.W).  The socket takes the bytes of b
\* one after the other; it may fail at any byte, and once it has failed it
\* takes no more bytes from anyone
WriteTo(w) ==
    /\ write[w].pc = "write"
    /\ \/ /\ ~broken
          /\ write[w].sent < Len(write[w].b)
          /\ W' = Append(W, [by |-> w, at |-> write[w].sent + 1,
                             byte |-> write[w].b[write[w].sent + 1]])
          /\ write' = [write EXCEPT ![w] =
                         [@ EXCEPT !.sent = @ + 1,
                                   !.pc = IF write[w].sent + 1 = Len(write[w].b)
                                          THEN "unlock" ELSE "write"]]
          /\ UNCHANGED broken
       \/ /\ broken' = TRUE
          /\ write' = [write EXCEPT ![w] = [@ EXCEPT !.pc = "unlock", !.err = ErrWrite]]
          /\ UNCHANGED W
    /\ UNCHANGED <<Wmu, bufPoolChan, smallBufPoolChan, notWriter>>

\* writeFrame, lines 309-311: c.Wmu.Unlock(), return err, the deferred put
WriteUnlock(w) ==
    /\ write[w].pc = "unlock"
    /\ Wmu' = NoCall
    /\ write' = [write EXCEPT ![w] = [@ EXCEPT !.pc = "done"]]
    /\ PutBufs(w)
    /\ UNCHANGED <<W, broken, notWriter>>

InitNoWriter ==
    /\ Wmu = NoCall
    /\ W = <<>>
    /\ broken = FALSE
    /\ write = [w \in Writers |-> WriteOff]
    /\ bufPoolChan = 0
    /\ smallBufPoolChan = 0

\* ------------------------------------------------------------ ManagedConsumer
\* durations are counted in seconds
DefaultInitialReconnectDelay == 1
DefaultMaxReconnectDelay == 5 * 60
DefaultQueueSize == 128
\* ConsumerConfig.SetDefaults
SetDefaults(c) ==
    [InitialReconnectDelay |->
        IF c.InitialReconnectDelay <= 0 THEN DefaultInitialReconnectDelay
        ELSE c.InitialReconnectDelay,
     MaxReconnectDelay |->
        IF c.MaxReconnectDelay <= 0 THEN DefaultMaxReconnectDelay
        ELSE c.MaxReconnectDelay,
     QueueSize |-> IF c.QueueSize <= 0 THEN DefaultQueueSize ELSE c.QueueSize]

\* nil, as a consumer and as a channel
Nil == 0
ConsumerIDs == 1 .. MaxConsumers
\* the channels of a consumer the ManagedConsumer selects on
LossSignals == {"ReachedEndOfTopic", "Closed", "ConnClosed"}
NotLost == "none"

\* the manage goroutine: its place, its local consumer (oldConsumer while it
\* reconnects), reconnect's initial, reconnectFlag and retryDelay, and what the running
\* reconnect call did so far: the waits it sat through and its attempts
ManageStart ==
    [pc |-> "start", consumer |-> Nil, initial |-> TRUE, reconnectFlag |-> TRUE,
     retryDelay |-> 0, did |-> <<>>]
ManageOff == [ManageStart EXCEPT !.pc = "off"]

\* m.set(c) without close(m.waitc)
Set_NoClose(c) ==
    /\ consumer' = c
    /\ waitc' = Nil
    /\ UNCHANGED waitClosed

\* m.set(c)
Set(c) ==
    /\ consumer' = c
    /\ IF waitc # Nil
       THEN waitClosed' = waitClosed \cup {waitc} /\ waitc' = Nil
       ELSE UNCHANGED <<waitClosed, waitc>>

\* m.unset() that makes no wait channel
Unset_NoMake ==
    /\ consumer' = Nil
    /\ UNCHANGED <<waitc, waitClosed>>

\* m.unset(); the channels made are numbered
Unset ==
    /\ waitc' = (IF waitc = Nil THEN Cardinality(waitClosed) + 1 ELSE waitc)
    /\ consumer' = Nil
    /\ UNCHANGED waitClosed

\* a call of m.set with a consumer, and a call of m.unset, by whoever makes
\* it
CallSet(c) ==
    /\ Set(c)
    /\ UNCHANGED <<cfg, stopManageChan, queue, lost, made, budget, manage, ops, async,
                   msgs, flow, put, overflowSignal, overflowOf, permits, notManaged>>

CallUnset ==
    /\ waitc # Nil \/ Cardinality(waitClosed) < MaxWaitc
    /\ Unset
    /\ UNCHANGED <<cfg, stopManageChan, queue, lost, made, budget, manage, ops, async,
                   msgs, flow, put, overflowSignal, overflowOf, permits, notManaged>>

\* manage, line 653: reconnect(true) begins
ManageReconnect ==
    /\ manage.pc = "start"
    /\ manage' = [manage EXCEPT !.pc = "loop", !.initial = TRUE, !.reconnectFlag = TRUE,
                                !.retryDelay = cfg.InitialReconnectDelay, !.did = <<>>]
    /\ UNCHANGED <<cfg, consumer, waitc, waitClosed, stopManageChan, queue, lost, made,
                   budget, ops, async, msgs, flow, put, overflowSignal, overflowOf, permits,
                   notManaged>>

\* reconnect, lines 617-628: the first attempt of the initial call goes
\* ahead, every other one waits for retryDelay, which is then doubled up to
\* MaxReconnectDelay
ReconnectDelay ==
    /\ manage.pc = "loop"
    /\ IF manage.initial
       THEN manage' = [manage EXCEPT !.pc = "attempt", !.initial = FALSE]
       ELSE manage' =
              [manage EXCEPT
                 !.pc = "attempt",
                 !.did = Append(@, [wait |-> manage.retryDelay]),
                 !.retryDelay =
                    IF manage.retryDelay < cfg.MaxReconnectDelay
                    THEN (IF manage.retryDelay * 2 > cfg.MaxReconnectDelay
                          THEN cfg.MaxReconnectDelay ELSE manage.retryDelay * 2)
                    ELSE manage.retryDelay]
    /\ UNCHANGED <<cfg, consumer, waitc, waitClosed, stopManageChan, queue, lost, made,
                   budget, ops, async, msgs, flow, put, overflowSignal, overflowOf, permits,
                   notManaged>>

\* reconnect, lines 630-644: m.newConsumer succeeds and reconnect returns the
\* new consumer, or it fails and the loop goes round
ReconnectAttempt(ok) ==
    /\ manage.pc = "attempt"
    /\ IF ok
       THEN /\ made < MaxConsumers
            /\ made' = made + 1
            /\ manage' = [manage EXCEPT !.pc = IF manage.reconnectFlag THEN "set"
                                              ELSE "signal",
                                        !.did = Append(@, [attempt |-> TRUE])]
            /\ UNCHANGED budget
       ELSE /\ budget > 0
            /\ budget' = budget - 1
            /\ manage' = [manage EXCEPT !.pc = "loop",
                                        !.did = Append(@, [attempt |-> FALSE])]
            /\ UNCHANGED made
    /\ UNCHANGED <<cfg, consumer, waitc, waitClosed, stopManageChan, queue, lost,
                   ops, async, msgs, flow, put, overflowSignal, overflowOf, permits,
                   notManaged>>

\* manage, line 675: consumer.OverflowSignal = oldConsumer.OverflowSignal
ManageInheritSignal ==
    /\ manage.pc = "signal"
    /\ overflowOf' = [overflowOf EXCEPT ![made].OverflowSignal =
                                           overflowOf[manage.consumer].OverflowSignal]
    /\ manage' = [manage EXCEPT !.pc = "overflow"]
    /\ UNCHANGED <<cfg, consumer, waitc, waitClosed, stopManageChan, queue, lost, made,
                   budget, ops, async, msgs, flow, put, overflowSignal, permits,
                   notManaged>>

\* manage going on to m.set without taking over the Overflow map
ManageInheritOverflow_Skip ==
    /\ manage.pc = "overflow"
    /\ manage' = [manage EXCEPT !.pc = "set"]
    /\ UNCHANGED <<cfg, consumer, waitc, waitClosed, stopManageChan, queue, lost, made,
                   budget, ops, async, msgs, flow, put, overflowSignal, overflowOf,
                   permits, notManaged>>

\* manage, lines 677-679: consumer.Overflow = oldConsumer.Overflow, under
\* oldConsumer.Omu
ManageInheritOverflow ==
    /\ manage.pc = "overflow"
    /\ overflowOf' = [overflowOf EXCEPT ![made].Overflow =
                                           overflowOf[manage.consumer].Overflow]
    /\ manage' = [manage EXCEPT !.pc = "set"]
    /\ UNCHANGED <<cfg, consumer, waitc, waitClosed, stopManageChan, queue, lost, made,
                   budget, ops, async, msgs, flow, put, overflowSignal, permits,
                   notManaged>>

\* manage, lines 654 and 680: m.set(consumer), the consumer being the one
\* reconnect has just made
ManageSet ==
    /\ manage.pc = "set"
    /\ Set(made)
    /\ manage' = [manage EXCEPT !.pc = "select", !.consumer = made]
    /\ UNCHANGED <<cfg, stopManageChan, queue, lost, made,
                   budget, ops, async, msgs, flow, put, overflowSignal, overflowOf, permits,
                   notManaged>>

\* manage, lines 657-674: a signal of the consumer leads to unset() and
\* reconnect(false), the closing of stopManageChan to the return of manage
\* with its deferred unset()
ManageSelect ==
    /\ manage.pc = "select"
    /\ \/ /\ lost[manage.consumer] # NotLost
          /\ manage' = [manage EXCEPT !.pc = "loop", !.initial = FALSE,
                                      !.reconnectFlag = FALSE,
                                      !.retryDelay = cfg.InitialReconnectDelay,
                                      !.did = <<>>]
       \/ /\ stopManageChan > 0
          /\ manage' = [manage EXCEPT !.pc = "done"]
    /\ Unset
    /\ UNCHANGED <<cfg, stopManageChan, queue, lost, made,
                   budget, ops, async, msgs, flow, put, overflowSignal, overflowOf, permits,
                   notManaged>>

\* a consumer raises one of its signals: the end of its topic, its closing
\* by the broker, the closing of its connection
Lose(c, signal) ==
    /\ c <= made
    /\ c < MaxConsumers
    /\ lost[c] = NotLost
    /\ lost' = [lost EXCEPT ![c] = signal]
    /\ UNCHANGED <<cfg, consumer, waitc, waitClosed, stopManageChan, queue, made,
                   budget, manage, ops, async, msgs, flow, put, overflowSignal, overflowOf, permits,
                   notManaged>>

\* ---- the operations of the ManagedConsumer
OpKinds == {"Ack", "Receive", "RedeliverUnacknowledged", "RedeliverOverflow",
            "Unsubscribe", "Close"}
Ops == 1 .. NumOps
\* a call: its place, the consumer and wait it read under the read lock,
\* whether it has sat on wait, whether its context can end, the consumer it
\* carried its operation out on, the error returned
OpCall(kind, live) ==
    [pc |-> IF kind = "Unactive" THEN "unactive" ELSE "call", kind |-> kind, consumer |-> Nil, wait |-> Nil, waited |-> FALSE,
     live |-> live, on |-> Nil, operated |-> FALSE, err |-> ErrNil, calls |-> 1]
OpOff == [OpCall("Ack", TRUE) EXCEPT !.pc = "off"]
ErrConsumerClosed == "consumer closed"
ErrConnClosed == "consumer connection closed"
ErrOverflow == "consumer overflow"
ErrFlow == "flow failed"

\* consumer.Flow(n) that succeeds: the broker of consumer c gets n permits
\* more
Issue(c, n) ==
    IF c \in DOMAIN permits THEN [permits EXCEPT ![c] = @ + n] ELSE permits

UnchangedByOps ==
    UNCHANGED <<cfg, consumer, waitc, waitClosed, lost, made, budget, manage,
                async, msgs, flow, put, overflowOf, notManaged>>

\* m.mu.RLock(); consumer := m.consumer; wait := m.waitc; m.mu.RUnlock()
OpRead(o) ==
    /\ ops[o].pc = "call"
    /\ ops' = [ops EXCEPT ![o] = [@ EXCEPT !.consumer = consumer, !.wait = waitc,
                                           !.pc = IF consumer = Nil THEN "wait"
                                                  ELSE "operate"]]
    /\ UNCHANGED <<stopManageChan, queue, overflowSignal, permits>>
    /\ UnchangedByOps

\* consumer == nil: select on wait and ctx.Done()
OpWait(o) ==
    /\ ops[o].pc = "wait"
    /\ \/ /\ ops[o].wait \in waitClosed
          /\ ops' = [ops EXCEPT ![o] = [@ EXCEPT !.pc = "call", !.waited = TRUE]]
       \/ /\ ~ops[o].live
          /\ ops' = [ops EXCEPT ![o] = [@ EXCEPT !.pc = "done", !.err = ErrCtx]]
    /\ UNCHANGED <<stopManageChan, queue, overflowSignal, permits>>
    /\ UnchangedByOps

\* Ack, RedeliverUnacknowledged, RedeliverOverflow, Unsubscribe: the call
\* returns what the consumer it read returns
OpOperate(o) ==
    /\ ops[o].pc = "operate"
    /\ ops[o].kind \in {"Ack", "RedeliverUnacknowledged", "RedeliverOverflow", "Unsubscribe"}
    /\ ops' = [ops EXCEPT ![o] = [@ EXCEPT !.pc = "done", !.on = ops[o].consumer,
                                           !.operated = TRUE]]
    /\ UNCHANGED <<stopManageChan, queue, overflowSignal, permits>>
    /\ UnchangedByOps

\* Receive, lines 435-437: consumer.Flow(1)
OpReceiveFlow(o, ok) ==
    /\ ops[o].pc = "operate"
    /\ ops[o].kind = "Receive"
    /\ ops' = [ops EXCEPT ![o] = [@ EXCEPT !.pc = IF ok THEN "receive" ELSE "done",
                                           !.on = ops[o].consumer, !.operated = TRUE,
                                           !.err = IF ok THEN ErrNil ELSE ErrFlow]]
    /\ permits' = IF ok THEN Issue(ops[o].consumer, 1) ELSE permits
    /\ UNCHANGED <<stopManageChan, queue, overflowSignal>>
    /\ UnchangedByOps

\* Receive, lines 439-454: the select on the queue, the overflow signal, the
\* context and the two channels of the consumer
OpReceive(o) ==
    /\ ops[o].pc = "receive"
    /\ \/ /\ queue # <<>>
          /\ queue' = Tail(queue)
          /\ ops' = [ops EXCEPT ![o] = [@ EXCEPT !.pc = "done"]]
          /\ UNCHANGED overflowSignal
       \/ /\ overflowSignal > 0
          /\ overflowSignal' = overflowSignal - 1
          /\ ops' = [ops EXCEPT ![o] = [@ EXCEPT !.pc = "done", !.err = ErrOverflow]]
          /\ UNCHANGED queue
       \/ /\ ~ops[o].live
          /\ ops' = [ops EXCEPT ![o] = [@ EXCEPT !.pc = "done", !.err = ErrCtx]]
          /\ UNCHANGED <<queue, overflowSignal>>
       \/ /\ lost[ops[o].consumer] = "Closed"
          /\ ops' = [ops EXCEPT ![o] = [@ EXCEPT !.pc = "done", !.err = ErrConsumerClosed]]
          /\ UNCHANGED <<queue, overflowSignal>>
       \/ /\ lost[ops[o].consumer] = "ConnClosed"
          /\ ops' = [ops EXCEPT ![o] = [@ EXCEPT !.pc = "done", !.err = ErrConnClosed]]
          /\ UNCHANGED <<queue, overflowSignal>>
    /\ UNCHANGED <<stopManageChan, permits>>
    /\ UnchangedByOps

\* Close, line 780: close(m.stopManageChan); closing it a second time panics
OpCloseStop(o) ==
    /\ ops[o].pc = "operate"
    /\ ops[o].kind = "Close"
    /\ stopManageChan' = stopManageChan + 1
    /\ ops' = [ops EXCEPT ![o] = [@ EXCEPT !.pc = IF stopManageChan > 0 THEN "panic"
                                                  ELSE "close"]]
    /\ UNCHANGED <<queue, overflowSignal, permits>>
    /\ UnchangedByOps

\* Close, line 781: m.consumer.Close(ctx); m.consumer is read again, without
\* the lock, and the call on a nil consumer panics.  A consumer whose Close
\* succeeds fires its Closed() signal (specification 4.7)
OpClose(o) ==
    /\ ops[o].pc = "close"
    /\ ops' = [ops EXCEPT ![o] = [@ EXCEPT !.pc = IF consumer = Nil THEN "panic" ELSE "done",
                                           !.on = consumer, !.operated = TRUE]]
    /\ \E ok \in BOOLEAN :
          lost' = IF ok /\ consumer # Nil /\ lost[consumer] = NotLost
                  THEN [lost EXCEPT ![consumer] = "Closed"]
                  ELSE lost
    /\ UNCHANGED <<cfg, consumer, waitc, waitClosed, stopManageChan, queue, made, budget,
                   manage, async, msgs, flow, put, overflowSignal, overflowOf, permits,
                   notManaged>>

\* Unactive, lines 353-355: m.consumer is read under the read lock; with a
\* nil consumer Unactive returns true
OpUnactive(o) ==
    /\ ops[o].pc = "unactive"
    /\ ops' = [ops EXCEPT ![o] = [@ EXCEPT !.consumer = consumer,
                                           !.pc = IF consumer = Nil THEN "done"
                                                  ELSE "use"]]
    /\ UNCHANGED <<stopManageChan, queue, overflowSignal, permits>>
    /\ UnchangedByOps

\* Unactive, line 357: return m.consumer.Unactive; m.consumer is read again,
\* without the lock, and the read of a field of a nil consumer panics
OpUnactiveUse(o) ==
    /\ ops[o].pc = "use"
    /\ ops' = [ops EXCEPT ![o] = [@ EXCEPT !.pc = IF consumer = Nil THEN "panic" ELSE "done",
                                           !.on = consumer, !.operated = TRUE]]
    /\ UNCHANGED <<stopManageChan, queue, overflowSignal, permits>>
    /\ UnchangedByOps


\* the goroutine of a call that has returned calls the operation again
OpAgain(o) ==
    /\ ops[o].pc = "done"
    /\ ops[o].calls < MaxCalls
    /\ ops' = [ops EXCEPT ![o] =
                 [OpCall(ops[o].kind, ops[o].live) EXCEPT !.calls = ops[o].calls + 1]]
    /\ UNCHANGED <<stopManageChan, queue, overflowSignal, permits>>
    /\ UnchangedByOps

\* ---- ReceiveAsync
\* highwater := uint32(cap(m.queue)) / 2
highwater == cfg.QueueSize \div 2
\* the call: its place, the consumer and wait it read, receivedSinceFlow,
\* the number of overflow signals it took, the number of messages drain
\* forwarded after a consumer was used, ctx.Err(), the error its last step
\* sent on m.asyncErrs, the error returned, and the message it has taken
\* from the queue and not yet sent on
AsyncCall(live) ==
    [pc |-> "drain", consumer |-> Nil, wait |-> Nil, live |-> live,
     receivedSinceFlow |-> 0, signals |-> 0, drained |-> 0,
     ctxErr |-> ErrNil, sent |-> ErrNil, err |-> ErrNil, msg |-> 0]
ErrDeadline == "context deadline exceeded"
CtxErrors == {ErrCtx, ErrDeadline}
\* a Flow request of ReceiveAsync: the consumer, the permits, whether it is
\* the request of line 511, the number of messages forwarded and of signals
\* taken up to it, and how many of them since the request before it
NoFlow == [on |-> Nil, n |-> 0, first |-> TRUE, at |-> 0, sig |-> 0,
           forwarded |-> 0, signals |-> 0]
AsyncOff == [AsyncCall(TRUE) EXCEPT !.pc = "off"]

UnchangedByAsync ==
    UNCHANGED <<cfg, consumer, waitc, waitClosed, stopManageChan, lost, made, budget,
                manage, ops, put, overflowOf, notManaged>>

\* drain that empties the queue without sending the messages on
AsyncDrain_Discard ==
    /\ async.pc = "drain"
    /\ IF queue # <<>>
       THEN /\ queue' = Tail(queue)
            /\ async' = [async EXCEPT !.sent = ErrNil]
            /\ UNCHANGED msgs
       ELSE /\ async' = [async EXCEPT !.pc = "read", !.sent = ErrNil]
            /\ UNCHANGED <<msgs, queue>>
    /\ UNCHANGED <<flow, overflowSignal>>
    /\ UNCHANGED permits
    /\ UnchangedByAsync

\* drain, lines 474-483: forward what the queue holds, then go on
AsyncDrain ==
    /\ async.pc = "drain"
    /\ IF queue # <<>>
       THEN /\ msgs' = Append(msgs, Head(queue))
            /\ queue' = Tail(queue)
            /\ async' = [async EXCEPT !.drained = IF async.consumer = Nil THEN @ ELSE @ + 1,
                                      !.sent = ErrNil]
       ELSE /\ async' = [async EXCEPT !.pc = "read", !.sent = ErrNil]
            /\ UNCHANGED <<msgs, queue>>
    /\ UNCHANGED <<flow, overflowSignal>>
    /\ UNCHANGED permits
    /\ UnchangedByAsync

\* the context of the call is cancelled or reaches its deadline; the call
\* looks at it in its selects only, so it ends while the call is at one
AsyncCtxDone(e) ==
    /\ async.pc \in {"wait", "loop"}
    /\ ~async.live
    /\ async.ctxErr = ErrNil
    /\ async' = [async EXCEPT !.ctxErr = e]
    /\ UNCHANGED <<msgs, queue, flow, overflowSignal>>
    /\ UNCHANGED permits
    /\ UnchangedByAsync

\* lines 491-494: the consumer and wait are read under the read lock
AsyncRead ==
    /\ async.pc = "read"
    /\ async' = [async EXCEPT !.consumer = consumer, !.wait = waitc,
                              !.pc = IF consumer = Nil THEN "wait" ELSE "flow"]
    /\ UNCHANGED <<msgs, queue, flow, overflowSignal>>
    /\ UNCHANGED permits
    /\ UnchangedByAsync

\* lines 496-505
AsyncWait ==
    /\ async.pc = "wait"
    /\ \/ /\ async.wait \in waitClosed
          /\ async' = [async EXCEPT !.pc = "drain"]
       \/ /\ async.ctxErr # ErrNil
          /\ async' = [async EXCEPT !.pc = "done", !.err = async.ctxErr]
    /\ UNCHANGED <<msgs, queue, flow, overflowSignal>>
    /\ UNCHANGED permits
    /\ UnchangedByAsync

FlowRequest(first, n, at) ==
    [on |-> async.consumer, n |-> n, first |-> first,
     at |-> at, sig |-> async.signals,
     forwarded |-> at - flow.at, signals |-> async.signals - flow.sig]

\* lines 511-516: consumer.Flow(highwater)
AsyncFlow(ok) ==
    /\ async.pc = "flow"
    /\ flow' = FlowRequest(TRUE, highwater, Len(msgs))
    /\ async' = [async EXCEPT !.pc = IF ok THEN "loop" ELSE "drain",
                              !.receivedSinceFlow = 0,
                              !.sent = IF ok THEN ErrNil ELSE ErrFlow]
    /\ permits' = IF ok THEN Issue(async.consumer, highwater) ELSE permits
    /\ UNCHANGED <<msgs, queue, overflowSignal>>
    /\ UnchangedByAsync

\* the same without receivedSinceFlow = 0 of line 534
AsyncReceive_NoReset(ok) ==
    /\ async.pc = "loop"
    /\ queue # <<>>
    /\ msgs' = Append(msgs, Head(queue))
    /\ queue' = Tail(queue)
    /\ IF async.receivedSinceFlow + 1 >= highwater
       THEN /\ flow' = FlowRequest(FALSE, async.receivedSinceFlow + 1, Len(msgs) + 1)
            /\ async' = [async EXCEPT !.pc = IF ok THEN "loop" ELSE "drain",
                                      !.receivedSinceFlow = @ + 1,
                                      !.sent = IF ok THEN ErrNil ELSE ErrFlow]
            /\ permits' = IF ok THEN Issue(async.consumer, async.receivedSinceFlow + 1)
                           ELSE permits
       ELSE /\ ok
            /\ async' = [async EXCEPT !.receivedSinceFlow = @ + 1, !.sent = ErrNil]
            /\ UNCHANGED <<flow, permits>>
    /\ UNCHANGED overflowSignal
    /\ UnchangedByAsync

\* lines 520-536: a message of the queue is sent on, and counted; at the
\* high-water mark Flow(receivedSinceFlow) is requested
AsyncReceive(ok) ==
    /\ async.pc = "loop"
    /\ queue # <<>>
    /\ msgs' = Append(msgs, Head(queue))
    /\ queue' = Tail(queue)
    /\ IF async.receivedSinceFlow + 1 >= highwater
       THEN /\ flow' = FlowRequest(FALSE, async.receivedSinceFlow + 1, Len(msgs) + 1)
            /\ async' = [async EXCEPT !.pc = IF ok THEN "loop" ELSE "drain",
                                      !.receivedSinceFlow = 0,
                                      !.sent = IF ok THEN ErrNil ELSE ErrFlow]
            /\ permits' = IF ok THEN Issue(async.consumer, async.receivedSinceFlow + 1)
                           ELSE permits
       ELSE /\ ok
            /\ async' = [async EXCEPT !.receivedSinceFlow = @ + 1, !.sent = ErrNil]
            /\ UNCHANGED <<flow, permits>>
    /\ UNCHANGED overflowSignal
    /\ UnchangedByAsync

\* the select returning the error of a closed consumer or connection
AsyncSelect_ReturnsClosed ==
    /\ async.pc = "loop"
    /\ \/ /\ async.ctxErr # ErrNil
          /\ async' = [async EXCEPT !.pc = "done", !.err = async.ctxErr]
          /\ UNCHANGED overflowSignal
       \/ /\ overflowSignal > 0
          /\ overflowSignal' = overflowSignal - 1
          /\ async' = [async EXCEPT !.receivedSinceFlow = @ + 1, !.signals = @ + 1]
       \/ /\ lost[async.consumer] = "Closed"
          /\ async' = [async EXCEPT !.pc = "done", !.err = ErrConsumerClosed]
          /\ UNCHANGED overflowSignal
       \/ /\ lost[async.consumer] = "ConnClosed"
          /\ async' = [async EXCEPT !.pc = "done", !.err = ErrConnClosed]
          /\ UNCHANGED overflowSignal
    /\ UNCHANGED <<msgs, queue, flow>>
    /\ UNCHANGED permits
    /\ UnchangedByAsync

\* lines 538-550: the context ends, an overflow signal is counted, or the
\* consumer or its connection is closed
AsyncSelect ==
    /\ async.pc = "loop"
    /\ \/ /\ async.ctxErr # ErrNil
          /\ async' = [async EXCEPT !.pc = "done", !.err = async.ctxErr]
          /\ UNCHANGED overflowSignal
       \/ /\ overflowSignal > 0
          /\ overflowSignal' = overflowSignal - 1
          /\ async' = [async EXCEPT !.receivedSinceFlow = @ + 1, !.signals = @ + 1]
       \/ /\ lost[async.consumer] = "Closed"
          /\ async' = [async EXCEPT !.pc = "drain", !.sent = ErrConsumerClosed]
          /\ UNCHANGED overflowSignal
       \/ /\ lost[async.consumer] = "ConnClosed"
          /\ async' = [async EXCEPT !.pc = "drain", !.sent = ErrConnClosed]
          /\ UNCHANGED overflowSignal
    /\ UNCHANGED <<msgs, queue, flow>>
    /\ UNCHANGED permits
    /\ UnchangedByAsync

\* ---- ReceiveAsync with msgs a channel of MsgsCap places that its user has
\* stopped reading: the receive from m.queue and the send on msgs are two
\* steps, and the send waits for a free place
\* drain, lines 475-480: case msg := <-m.queue, or default
AsyncDrainTake ==
    /\ async.pc = "drain"
    /\ IF queue # <<>>
       THEN /\ queue' = Tail(queue)
            /\ async' = [async EXCEPT !.pc = "drainSend", !.msg = Head(queue),
                                      !.sent = ErrNil]
       ELSE /\ async' = [async EXCEPT !.pc = "read", !.sent = ErrNil]
            /\ UNCHANGED queue
    /\ UNCHANGED <<msgs, flow, overflowSignal, permits>>
    /\ UnchangedByAsync

\* drain, line 477: msgs <- msg
AsyncDrainSend ==
    /\ async.pc = "drainSend"
    /\ Len(msgs) < MsgsCap
    /\ msgs' = Append(msgs, async.msg)
    /\ async' = [async EXCEPT !.pc = "drain", !.msg = 0,
                              !.drained = IF async.consumer = Nil THEN @ ELSE @ + 1]
    /\ UNCHANGED <<queue, flow, overflowSignal, permits>>
    /\ UnchangedByAsync

\* line 520: case msg := <-m.queue of the select
AsyncTake ==
    /\ async.pc = "loop"
    /\ queue # <<>>
    /\ queue' = Tail(queue)
    /\ async' = [async EXCEPT !.pc = "loopSend", !.msg = Head(queue), !.sent = ErrNil]
    /\ UNCHANGED <<msgs, flow, overflowSignal, permits>>
    /\ UnchangedByAsync

\* lines 521-536: msgs <- msg, then the message is counted and at the
\* high-water mark Flow(receivedSinceFlow) is requested
AsyncSend(ok) ==
    /\ async.pc = "loopSend"
    /\ Len(msgs) < MsgsCap
    /\ msgs' = Append(msgs, async.msg)
    /\ IF async.receivedSinceFlow + 1 >= highwater
       THEN /\ flow' = FlowRequest(FALSE, async.receivedSinceFlow + 1, Len(msgs) + 1)
            /\ async' = [async EXCEPT !.pc = IF ok THEN "loop" ELSE "drain",
                                      !.msg = 0,
                                      !.receivedSinceFlow = 0,
                                      !.sent = IF ok THEN ErrNil ELSE ErrFlow]
            /\ permits' = IF ok THEN Issue(async.consumer, async.receivedSinceFlow + 1)
                           ELSE permits
       ELSE /\ ok
            /\ async' = [async EXCEPT !.pc = "loop", !.msg = 0,
                                      !.receivedSinceFlow = @ + 1]
            /\ UNCHANGED <<flow, permits>>
    /\ UNCHANGED <<queue, overflowSignal>>
    /\ UnchangedByAsync

\* a message for consumer c arrives: it is put on the queue, or, the queue
\* being full, dropped with a signal on OverflowSignal.  Messages are
\* numbered as they arrive
Enqueue(c) ==
    /\ c <= made
    /\ lost[c] = NotLost
    /\ Len(put) < MaxMsgs
    /\ IF Len(queue) < cfg.QueueSize
       THEN /\ queue' = Append(queue, Len(put) + 1)
            /\ put' = Append(put, FALSE)
            /\ UNCHANGED overflowSignal
       ELSE /\ put' = Append(put, TRUE)
            /\ overflowSignal' = overflowSignal + 1
            /\ UNCHANGED queue
    /\ UNCHANGED <<cfg, consumer, waitc, waitClosed, stopManageChan, lost, made, budget,
                   manage, ops, async, msgs, flow, overflowOf, permits,
                   notManaged>>

\* a new consumer has an Overflow map and an OverflowSignal channel of its
\* own
NewOverflow(c) == [Overflow |-> c, OverflowSignal |-> c]
\* the permits of the brokers are not followed
NoPermits == <<>>

\* the broker of consumer c uses one of its permits to send a message,
\* which is put on the queue or, the queue being full, dropped
Deliver(c) ==
    /\ c <= made
    /\ lost[c] = NotLost
    /\ Len(put) < MaxMsgs
    /\ c \in DOMAIN permits
    /\ permits[c] > 0
    /\ permits' = [permits EXCEPT ![c] = @ - 1]
    /\ IF Len(queue) < cfg.QueueSize
       THEN /\ queue' = Append(queue, Len(put) + 1)
            /\ put' = Append(put, FALSE)
            /\ UNCHANGED overflowSignal
       ELSE /\ put' = Append(put, TRUE)
            /\ overflowSignal' = overflowSignal + 1
            /\ UNCHANGED queue
    /\ UNCHANGED <<cfg, consumer, waitc, waitClosed, stopManageChan, lost, made, budget,
                   manage, ops, async, msgs, flow, overflowOf, notManaged>>

NoCfg == SetDefaults([InitialReconnectDelay |-> 0, MaxReconnectDelay |-> 0, QueueSize |-> 0])

InitNoManaged ==
    /\ cfg = NoCfg
    /\ consumer = Nil
    /\ waitc = Nil
    /\ waitClosed = {}
    /\ stopManageChan = 0
    /\ queue = <<>>
    /\ lost = [c \in ConsumerIDs |-> NotLost]
    /\ made = 0
    /\ budget = 0
    /\ manage = ManageOff
    /\ ops = [o \in Ops |-> OpOff]
    /\ async = AsyncOff
    /\ msgs = <<>>
    /\ flow = NoFlow
    /\ put = <<>>
    /\ overflowSignal = 0
    /\ overflowOf = [c \in ConsumerIDs |-> NewOverflow(c)]
    /\ permits = NoPermits

\* ------------------------------------------------------------ specifications
\* the parts of the library a scenario does not use
InitRest == InitNoCodec /\ InitNoWriter /\ InitNoManaged

\* a call that is not made in a scenario
SendOff == [SendIdle EXCEPT !.pc = "off"]
CloseOff == [CloseIdle EXCEPT !.pc = "off"]

\* a producer and a dispatcher nobody uses
InitNoProducer ==
    /\ IsClosed = FALSE
    /\ Closedc = 0
    /\ Mu = NoCall
    /\ SeqID = NewProducerSeqID
    /\ ReqID = InitialReqID
    /\ prodSeqIDs = EmptyMap
    /\ send = [t \in Senders |-> SendOff]
    /\ close = [c \in Closers |-> CloseOff]
    /\ taken = <<>>

InitNoConnector ==
    /\ global = NoCall
    /\ connect = <<>>

\* NewTCPConn / NewTLSConn: an open connection nobody uses
InitNoConn ==
    /\ ConnIsClosed = FALSE
    /\ ConnClosedc = 0
    /\ Cmu = NoCall
    /\ RcCloses = 0
    /\ connClose = [x \in ConnClosers |-> ConnCloseOff]
    /\ read = [ReadIdle EXCEPT !.pc = "off"]

InitOthers == InitNoConnector /\ InitNoConn

\* NewProducer, on a new dispatcher and sender; `ns` goroutines are about to
\* call Send and `nc` are about to call Close
InitProducer(ns, nc) ==
    /\ InitRest
    /\ IsClosed = FALSE
    /\ Closedc = 0
    /\ Mu = NoCall
    /\ SeqID = NewProducerSeqID
    /\ ReqID = InitialReqID
    /\ prodSeqIDs = EmptyMap
    /\ reqIDs = EmptyMap
    /\ Frames = <<>>
    /\ send = [t \in Senders |-> IF t <= ns THEN SendIdle ELSE SendOff]
    /\ close = [c \in Closers |-> IF c <= nc THEN CloseIdle ELSE CloseOff]
    /\ ctxDone = [call \in ProducerCalls |-> FALSE]
    /\ reader = ReaderIdle
    /\ taken = <<>>
    /\ InitOthers

NextProducer ==
    \/ \E t \in Senders : SendCheckClosed(t)
    \/ \E t \in Senders : SendNextSeqID(t)
    \/ \E t \in Senders : SendRegister(t)
    \/ \E t \in Senders : SendPayload(t)
    \/ \E t \in Senders : SendWait(t)
    \/ \E c \in Closers : CloseBegin(c)
    \/ \E c \in Closers : CloseSend(c)
    \/ \E c \in Closers : CloseWait(c)
    \/ \E call \in ProducerCalls : CtxDone(call)
    \/ RouteProducerFrame
    \/ HandleCloseProducer

\* concurrent Send calls on a producer that only its broker may close
NextSend ==
    \/ \E t \in Senders : SendCheckClosed(t)
    \/ \E t \in Senders : SendNextSeqID(t)
    \/ \E t \in Senders : SendRegister(t)
    \/ \E t \in Senders : SendPayload(t)
    \/ \E t \in Senders : SendWait(t)
    \/ \E t \in Senders : CtxDone(SendCall(t))
    \/ \E f \in SendReceipts \cup SendErrors : NotifyProdSeqIDs(f.sequenceId, f)
    \/ RouteCloseProducer
    \/ HandleCloseProducer

SpecSend == InitProducer(NumSend, 0) /\ [][NextSend]_vars
\* concurrent Close calls, one Send call and the broker's frames
SpecClose == InitProducer(1, NumClose) /\ [][NextProducer]_vars

\* one Send and one Close call and the broker's frames; a Send blocked in
\* its select goes on once one of the select's cases is ready
SpecSendLive ==
    /\ InitProducer(1, 1)
    /\ [][NextProducer]_vars
    /\ \A t \in Senders : WF_vars(SendWait(t))

\* NewConnector on a new dispatcher and sender
InitConnect ==
    /\ InitRest
    /\ InitNoProducer
    /\ InitNoConn
    /\ global = NoCall
    /\ connect = [k \in Connectors |-> ConnectIdle]
    /\ reqIDs = EmptyMap
    /\ Frames = <<>>
    /\ ctxDone = [call \in ConnectCalls |-> FALSE]
    /\ reader = ReaderIdle

NextConnect ==
    \/ \E k \in Connectors : ConnectRegisterGlobal(k)
    \/ \E k \in Connectors : ConnectRegisterReqID(k)
    \/ \E k \in Connectors : ConnectSend(k)
    \/ \E k \in Connectors : ConnectWait(k)
    \/ \E k \in Connectors : CtxDone(ConnectCall(k))
    \/ RouteConnected
    \/ \E f \in ConnectErrors : RouteError(f)

\* concurrent Connect calls and the broker's answers
SpecConnect == InitConnect /\ [][NextConnect]_vars

\* an open connection: Read runs, NumConnClose goroutines are about to Close
InitConn ==
    /\ InitRest
    /\ InitNoProducer
    /\ InitNoConnector
    /\ reqIDs = EmptyMap
    /\ Frames = <<>>
    /\ ctxDone = <<>>
    /\ reader = ReaderIdle
    /\ ConnIsClosed = FALSE
    /\ ConnClosedc = 0
    /\ Cmu = NoCall
    /\ RcCloses = 0
    /\ connClose = [x \in ConnClosers |->
                      IF x = ReadClose THEN ConnCloseOff ELSE ConnCloseIdle]
    /\ read = ReadIdle

NextConn ==
    \/ \E x \in ConnClosers : ConnCloseLock(x)
    \/ \E x \in ConnClosers : ConnCloseRc(x)
    \/ \E x \in ConnClosers : ConnCloseSignal(x)
    \/ \E x \in ConnClosers : ConnCloseFlag(x)
    \/ ReadDecode
    \/ ReadReturn

\* Read and concurrent Close calls on one connection
SpecConn == InitConn /\ [][NextConn]_vars

\* one frame of each type per key: which error kind, message id or protocol
\* version a frame carries has no part in the release of registrations
ReleaseFrames(S) ==
    {f \in S : /\ "error" \in DOMAIN f => f.error = "ChecksumError"
               /\ "messageId" \in DOMAIN f => f.messageId = "7:0"
               /\ "connected" \in DOMAIN f => f.connected = "v12"}

\* one Send, one Close and two Connect calls sharing one dispatcher
InitRelease ==
    /\ InitRest
    /\ IsClosed = FALSE
    /\ Closedc = 0
    /\ Mu = NoCall
    /\ SeqID = NewProducerSeqID
    /\ ReqID = InitialReqID
    /\ prodSeqIDs = EmptyMap
    /\ reqIDs = EmptyMap
    /\ Frames = <<>>
    /\ send = [t \in Senders |-> IF t <= 1 THEN SendIdle ELSE SendOff]
    /\ close = [c \in Closers |-> IF c <= 1 THEN CloseIdle ELSE CloseOff]
    /\ taken = <<>>
    /\ global = NoCall
    /\ connect = [k \in Connectors |-> IF k <= 2 THEN ConnectIdle ELSE ConnectOff]
    /\ ctxDone = [call \in ProducerCalls \cup ConnectCalls |-> FALSE]
    /\ reader = ReaderIdle
    /\ InitNoConn

NextRelease ==
    \/ \E t \in Senders : SendCheckClosed(t)
    \/ \E t \in Senders : SendNextSeqID(t)
    \/ \E t \in Senders : SendRegister(t)
    \/ \E t \in Senders : SendPayload(t)
    \/ \E t \in Senders : SendWait(t)
    \/ \E c \in Closers : CloseBegin(c)
    \/ \E c \in Closers : CloseSend(c)
    \/ \E c \in Closers : CloseWait(c)
    \/ \E k \in Connectors : ConnectRegisterGlobal(k)
    \/ \E k \in Connectors : ConnectRegisterReqID(k)
    \/ \E k \in Connectors : ConnectSend(k)
    \/ \E k \in Connectors : ConnectWait(k)
    \/ \E call \in ProducerCalls \cup ConnectCalls : CtxDone(call)
    \/ \E f \in ReleaseFrames(SendReceipts \cup SendErrors) :
         NotifyProdSeqIDs(f.sequenceId, f)
    \/ \E f \in Successes : NotifyReqID(f.requestId, f)
    \/ \E f \in ReleaseFrames(Errors(RequestIDs) \cup ConnectErrors) : RouteError(f)
    \/ \E f \in ReleaseFrames(ConnectedFrames) : NotifyGlobal(f)
    \/ RouteCloseProducer
    \/ HandleCloseProducer

SpecRelease == InitRelease /\ [][NextRelease]_vars

\* a producer, a connector and a connection nobody uses
InitNoCore ==
    /\ InitNoProducer
    /\ InitNoConnector
    /\ InitNoConn
    /\ reqIDs = EmptyMap
    /\ Frames = <<>>
    /\ ctxDone = <<>>
    /\ reader = ReaderIdle

\* a Frame is encoded, perhaps corrupted, and decoded
InitFrame ==
    /\ InitNoCore
    /\ InitNoWriter
    /\ InitNoManaged
    /\ frame \in SimpleFrames \cup PayloadFrames
    /\ buf = NoBuf
    /\ corrupted = 0
    /\ decoded = DecodeFail(ErrNil)
    /\ fpc = "new"
    /\ sizes = [cmd |-> WZero, hasMeta |-> FALSE, meta |-> WZero, payload |-> WZero]
    /\ sized = [pc |-> "off", err |-> ErrNil, written |-> WZero]

NextFrame ==
    \/ FrameEncode
    \/ FrameCorrupt
    \/ FrameDecode

SpecFrame == InitFrame /\ [][NextFrame]_vars

\* Encode on frames of every size
InitFrameSize ==
    /\ InitNoCore
    /\ InitNoWriter
    /\ InitNoManaged
    /\ frame = SimpleFrame(NoMessage)
    /\ buf = NoBuf
    /\ corrupted = 0
    /\ decoded = DecodeFail(ErrNil)
    /\ fpc = "off"
    /\ sizes \in [cmd : CmdLens, hasMeta : BOOLEAN, meta : MetaLens, payload : PayloadLens]
    /\ sized = [pc |-> "new", err |-> ErrNil, written |-> WZero]

NextFrameSize == EncodeSized

SpecFrameSize == InitFrameSize /\ [][NextFrameSize]_vars

\* concurrent SendSimpleCmd and SendPayloadCmd calls on one connection
InitWrite ==
    /\ InitNoCore
    /\ InitNoCodec
    /\ InitNoManaged
    /\ Wmu = NoCall
    /\ W = <<>>
    /\ broken = FALSE
    /\ write \in [Writers -> {WriteIdle(f) : f \in WriteFrames}]
    /\ bufPoolChan = 0
    /\ smallBufPoolChan = 0

NextWrite ==
    \/ \E w \in Writers : WriteGetBuf(w)
    \/ \E w \in Writers : WriteEncode(w)
    \/ \E w \in Writers : WriteLock(w)
    \/ \E w \in Writers : WriteTo(w)
    \/ \E w \in Writers : WriteUnlock(w)

SpecWrite == InitWrite /\ [][NextWrite]_vars

\* frame writes on one connection while the writes on the other connections
\* of the process hold nearly all the buffers of both pools
InitPool ==
    /\ InitNoCore
    /\ InitNoCodec
    /\ InitNoManaged
    /\ Wmu = NoCall
    /\ W = <<>>
    /\ broken = FALSE
    /\ write \in [Writers -> {WriteIdle(f) : f \in WriteFrames}]
    /\ bufPoolChan \in bufLimit - PoolSlack .. bufLimit
    /\ smallBufPoolChan \in smalleBufLimit - PoolSlack .. smalleBufLimit

NextPool ==
    \/ \E w \in Writers : WriteGetBuf(w)
    \/ \E w \in Writers : WriteEncode(w)
    \/ \E w \in Writers : WriteLock(w)
    \/ \E w \in Writers : WriteTo(w)
    \/ \E w \in Writers : WriteUnlock(w)
    \/ \E small \in BOOLEAN : OtherGetBuf(small)
    \/ \E small \in BOOLEAN : OtherPutBuf(small)

SpecPool == InitPool /\ [][NextPool]_vars

\* the supervisor of a ManagedConsumer on its own, under every configuration
\* of the two delays
ReconnectDelays == {0, 1, 3, 400}
MaxReconnectDelays == {0, 2, 5}
InitManaged(c) ==
    /\ InitNoCore
    /\ InitNoCodec
    /\ InitNoWriter
    /\ cfg = SetDefaults(c)
    /\ consumer = Nil
    /\ waitc = 1
    /\ waitClosed = {}
    /\ stopManageChan = 0
    /\ queue = <<>>
    /\ lost = [k \in ConsumerIDs |-> NotLost]
    /\ made = 0
    /\ manage = ManageStart
    /\ msgs = <<>>
    /\ flow = NoFlow
    /\ put = <<>>
    /\ overflowSignal = 0
    /\ overflowOf = [k \in ConsumerIDs |-> NewOverflow(k)]

InitBackoff ==
    /\ \E i \in ReconnectDelays, x \in MaxReconnectDelays :
          InitManaged([InitialReconnectDelay |-> i, MaxReconnectDelay |-> x,
                       QueueSize |-> 0])
    /\ budget = MaxFail
    /\ ops = [o \in Ops |-> OpOff]
    /\ async = AsyncOff
    /\ permits = NoPermits

NextBackoff ==
    \/ ManageReconnect
    \/ ReconnectDelay
    \/ \E ok \in BOOLEAN : ReconnectAttempt(ok)
    \/ ManageInheritSignal
    \/ ManageInheritOverflow
    \/ ManageSet
    \/ ManageSelect
    \/ \E c \in ConsumerIDs, signal \in LossSignals : Lose(c, signal)

SpecBackoff == InitBackoff /\ [][NextBackoff]_vars

\* the operations of a ManagedConsumer next to its supervisor
QueueSizes == {2, 4}
DefaultDelays == [InitialReconnectDelay |-> 0, MaxReconnectDelay |-> 0, QueueSize |-> 0]
InitOps ==
    /\ InitManaged([DefaultDelays EXCEPT !.QueueSize = 2])
    /\ budget = 0
    /\ ops \in [Ops -> {OpCall(kind, FALSE) : kind \in OpKinds}]
    /\ async = AsyncOff
    /\ permits = NoPermits

NextOps ==
    \/ ManageReconnect
    \/ ReconnectDelay
    \/ \E ok \in BOOLEAN : ReconnectAttempt(ok)
    \/ ManageInheritSignal
    \/ ManageInheritOverflow
    \/ ManageSet
    \/ ManageSelect
    \/ \E c \in ConsumerIDs, signal \in LossSignals : Lose(c, signal)
    \/ \E o \in Ops : OpRead(o)
    \/ \E o \in Ops : OpWait(o)
    \/ \E o \in Ops : OpOperate(o)
    \/ \E o \in Ops, ok \in BOOLEAN : OpReceiveFlow(o, ok)
    \/ \E o \in Ops : OpReceive(o)
    \/ \E o \in Ops : OpCloseStop(o)
    \/ \E o \in Ops : OpClose(o)

SpecOps == InitOps /\ [][NextOps]_vars

\* One Receive or Ack with a context that does not end, next to a supervisor
\* whose attempts to create a consumer fail once and succeed from then on.  Every
\* goroutine that can take a step takes it in the end, and the timer of
\* reconnect fires
InitLive ==
    /\ InitManaged(DefaultDelays)
    /\ budget = 1
    /\ \E kind \in {"Receive", "Ack"} :
          ops = [o \in Ops |-> IF o = 1 THEN OpCall(kind, TRUE) ELSE OpOff]
    /\ async = AsyncOff
    /\ permits = NoPermits

NextLive ==
    \/ ManageReconnect
    \/ ReconnectDelay
    \/ \E ok \in BOOLEAN : ReconnectAttempt(ok)
    \/ ManageInheritSignal
    \/ ManageInheritOverflow
    \/ ManageSet
    \/ ManageSelect
    \/ \E c \in ConsumerIDs, signal \in LossSignals : Lose(c, signal)
    \/ \E o \in Ops : OpRead(o)
    \/ \E o \in Ops : OpWait(o)
    \/ \E o \in Ops : OpOperate(o)
    \/ \E o \in Ops, ok \in BOOLEAN : OpReceiveFlow(o, ok)
    \/ \E o \in Ops : OpReceive(o)

FairLive ==
    /\ WF_vars(ManageReconnect)
    /\ WF_vars(ReconnectDelay)
    /\ WF_vars(\E ok \in BOOLEAN : ReconnectAttempt(ok))
    /\ WF_vars(ManageInheritSignal)
    /\ WF_vars(ManageInheritOverflow)
    /\ WF_vars(ManageSet)
    /\ WF_vars(ManageSelect)
    /\ \A o \in Ops :
          /\ WF_vars(OpRead(o))
          /\ WF_vars(OpWait(o))
          /\ WF_vars(OpOperate(o))
          /\ WF_vars(\E ok \in BOOLEAN : OpReceiveFlow(o, ok))

SpecLive == InitLive /\ [][NextLive]_vars /\ FairLive

\* NewManagedConsumer, then m.set and m.unset called in any order, next to
\* operations that read m.consumer and m.waitc under the read lock
InitCell ==
    /\ InitManaged(DefaultDelays)
    /\ budget = 0
    /\ ops \in [Ops -> {OpCall(kind, FALSE) :
                          kind \in {"Ack", "RedeliverUnacknowledged", "Unsubscribe"}}]
    /\ async = AsyncOff
    /\ permits = NoPermits

NextCell ==
    \/ \E c \in ConsumerIDs : CallSet(c)
    \/ CallUnset
    \/ \E o \in Ops : OpRead(o)
    \/ \E o \in Ops : OpWait(o)
    \/ \E o \in Ops : OpOperate(o)

SpecCell == InitCell /\ [][NextCell]_vars

\* a goroutine that calls Receive again and again, with contexts that may
\* end, next to the supervisor and to brokers that send a message for a
\* permit
InitPermits ==
    /\ InitManaged([DefaultDelays EXCEPT !.QueueSize = 2])
    /\ budget = 0
    /\ ops = [o \in Ops |-> IF o = 1 THEN OpCall("Receive", FALSE) ELSE OpOff]
    /\ async = AsyncOff
    /\ permits = [c \in ConsumerIDs |-> 0]

NextPermits ==
    \/ ManageReconnect
    \/ ReconnectDelay
    \/ \E ok \in BOOLEAN : ReconnectAttempt(ok)
    \/ ManageInheritSignal
    \/ ManageInheritOverflow
    \/ ManageSet
    \/ ManageSelect
    \/ \E c \in ConsumerIDs, signal \in {"Closed", "ConnClosed"} : Lose(c, signal)
    \/ \E c \in ConsumerIDs : Deliver(c)
    \/ \E o \in Ops : OpRead(o)
    \/ \E o \in Ops : OpWait(o)
    \/ \E o \in Ops, ok \in BOOLEAN : OpReceiveFlow(o, ok)
    \/ \E o \in Ops : OpReceive(o)
    \/ \E o \in Ops : OpAgain(o)

SpecPermits == InitPermits /\ [][NextPermits]_vars

\* a goroutine that calls Close, or Unactive, again and again next to the
\* supervisor
InitStop ==
    /\ InitManaged(DefaultDelays)
    /\ budget = 0
    /\ \E kind \in {"Close", "Unactive"} :
          ops = [o \in Ops |-> IF o = 1 THEN OpCall(kind, FALSE) ELSE OpOff]
    /\ async = AsyncOff
    /\ permits = NoPermits

NextStop ==
    \/ ManageReconnect
    \/ ReconnectDelay
    \/ \E ok \in BOOLEAN : ReconnectAttempt(ok)
    \/ ManageInheritSignal
    \/ ManageInheritOverflow
    \/ ManageSet
    \/ ManageSelect
    \/ \E c \in ConsumerIDs, signal \in LossSignals : Lose(c, signal)
    \/ \E o \in Ops : OpRead(o)
    \/ \E o \in Ops : OpWait(o)
    \/ \E o \in Ops : OpCloseStop(o)
    \/ \E o \in Ops : OpClose(o)
    \/ \E o \in Ops : OpUnactive(o)
    \/ \E o \in Ops : OpUnactiveUse(o)
    \/ \E o \in Ops : OpAgain(o)

SpecStop == InitStop /\ [][NextStop]_vars

\* ReceiveAsync, with a context that does not end, next to the supervisor
InitAsync ==
    /\ \E q \in QueueSizes : InitManaged([DefaultDelays EXCEPT !.QueueSize = q])
    /\ budget = 0
    /\ ops = [o \in Ops |-> OpOff]
    /\ async = AsyncCall(TRUE)
    /\ permits = NoPermits

NextAsync ==
    \/ ManageReconnect
    \/ ReconnectDelay
    \/ \E ok \in BOOLEAN : ReconnectAttempt(ok)
    \/ ManageInheritSignal
    \/ ManageInheritOverflow
    \/ ManageSet
    \/ ManageSelect
    \/ \E c \in ConsumerIDs, signal \in LossSignals : Lose(c, signal)
    \/ \E c \in ConsumerIDs : Enqueue(c)
    \/ AsyncDrain
    \/ AsyncRead
    \/ AsyncWait
    \/ \E ok \in BOOLEAN : AsyncFlow(ok)
    \/ \E ok \in BOOLEAN : AsyncReceive(ok)
    \/ AsyncSelect

SpecAsync == InitAsync /\ [][NextAsync]_vars

\* ReceiveAsync with a context that is cancelled or reaches its deadline,
\* next to the supervisor
InitAsyncCtx ==
    /\ InitManaged([DefaultDelays EXCEPT !.QueueSize = 2])
    /\ budget = 0
    /\ ops = [o \in Ops |-> OpOff]
    /\ async = AsyncCall(FALSE)
    /\ permits = NoPermits

NextAsyncCtx ==
    \/ ManageReconnect
    \/ ReconnectDelay
    \/ \E ok \in BOOLEAN : ReconnectAttempt(ok)
    \/ ManageInheritSignal
    \/ ManageInheritOverflow
    \/ ManageSet
    \/ ManageSelect
    \/ \E c \in ConsumerIDs, signal \in {"Closed", "ConnClosed"} : Lose(c, signal)
    \/ \E c \in ConsumerIDs : Enqueue(c)
    \/ \E e \in CtxErrors : AsyncCtxDone(e)
    \/ AsyncDrain
    \/ AsyncRead
    \/ AsyncWait
    \/ \E ok \in BOOLEAN : AsyncFlow(ok)
    \/ \E ok \in BOOLEAN : AsyncReceive(ok)
    \/ AsyncSelect

SpecAsyncCtx == InitAsyncCtx /\ [][NextAsyncCtx]_vars

\* ReceiveAsync with a context that ends and a user who has stopped reading
\* msgs, next to the supervisor of a consumer that stays; the goroutine of
\* the call and the supervisor keep running
InitBlocked ==
    /\ InitManaged([DefaultDelays EXCEPT !.QueueSize = 2])
    /\ budget = 0
    /\ ops = [o \in Ops |-> OpOff]
    /\ async = AsyncCall(FALSE)
    /\ permits = NoPermits

NextBlocked ==
    \/ ManageReconnect
    \/ ReconnectDelay
    \/ \E ok \in BOOLEAN : ReconnectAttempt(ok)
    \/ ManageSet
    \/ \E c \in ConsumerIDs : Enqueue(c)
    \/ \E e \in CtxErrors : AsyncCtxDone(e)
    \/ AsyncDrainTake
    \/ AsyncDrainSend
    \/ AsyncRead
    \/ AsyncWait
    \/ AsyncFlow(TRUE)
    \/ AsyncTake
    \/ AsyncSend(TRUE)
    \/ AsyncSelect

SpecBlocked ==
    /\ InitBlocked
    /\ [][NextBlocked]_vars
    /\ WF_vars(ManageReconnect)
    /\ WF_vars(ReconnectDelay)
    /\ WF_vars(ReconnectAttempt(TRUE))
    /\ WF_vars(ManageSet)
    /\ WF_vars(AsyncDrainTake)
    /\ WF_vars(AsyncDrainSend)
    /\ WF_vars(AsyncRead)
    /\ WF_vars(AsyncWait)
    /\ WF_vars(AsyncFlow(TRUE))
    /\ WF_vars(AsyncTake)
    /\ WF_vars(AsyncSend(TRUE))
    /\ WF_vars(AsyncSelect)

\* ------------------------------------------------------------ properties
SendReturns(t) == send[t].pc = "wait" /\ send'[t].pc = "done"

\* C1: a Send call that wrote its SEND frame and is waiting, with a
\* SEND_RECEIPT notified on its key (producer-id, s), the producer not closed
\* and its context not done, returns exactly that receipt and a nil error,
\* having handed exactly one frame to the sender.
C1_SendReturnsReceipt ==
    [][\A t \in Senders :
         (/\ SendReturns(t)
          /\ Offered(SendCall(t), "prodSeqIDs")
          /\ reader.f.type = "SEND_RECEIPT"
          /\ Closedc = 0
          /\ ~ctxDone[SendCall(t)])
         => (/\ reader.f.sequenceId = send[t].seq
             /\ send'[t].receipt = reader.f
             /\ send'[t].err = ErrNil
             /\ send'[t].sends = 1
             /\ Len(SelectSeq(Frames', LAMBDA fr : fr = SendFrame(t))) = 1)]_vars

C1_Witness ==
    \E t \in Senders :
        /\ send[t].pc = "done"
        /\ send[t].got.type = "SEND_RECEIPT"
        /\ send[t].receipt = send[t].got
        /\ send[t].seq = 1
        /\ Closedc = 0
        /\ ~ctxDone[SendCall(t)]

\* C2: a Send call waiting on its key, with a SEND_ERROR notified on that
\* key, returns a non-nil error and no receipt, having handed exactly one
\* frame to the sender; when it reads the frame the error is built from the
\* frame's error kind and message; the return closes neither the producer
\* nor the connection.
C2_SendErrorRejected ==
    [][\A t \in Senders :
         (/\ SendReturns(t)
          /\ Offered(SendCall(t), "prodSeqIDs")
          /\ reader.f.type = "SEND_ERROR")
         => (/\ send'[t].err # ErrNil
             /\ send'[t].receipt = NoFrame
             /\ send'[t].sends = 1
             /\ (send'[t].got # NoFrame =>
                   /\ send'[t].got = reader.f
                   /\ send'[t].err = Errorf(reader.f.error, reader.f.message))
             /\ UNCHANGED <<IsClosed, Closedc, ConnIsClosed, ConnClosedc, RcCloses>>)]_vars

C2_Witness ==
    \E t \in Senders :
        /\ send[t].pc = "done"
        /\ send[t].got.type = "SEND_ERROR"
        /\ send[t].err = "ChecksumError: no me mandes esto"
        /\ send[t].sends = 1
        /\ ~IsClosed

\* C3: a Send call that starts once the producer is closed fails with
\* ErrClosedProducer, takes no sequence-id, registers no dispatcher key and
\* hands no frame to the sender.
C3_SendOnClosedProducer ==
    [][\A t \in Senders :
         (send[t].pc = "start" /\ send'[t].pc # "start" /\ IsClosed)
         => (/\ send'[t].pc = "done"
             /\ send'[t].err = ErrClosedProducer
             /\ send'[t].sends = 0
             /\ UNCHANGED <<prodSeqIDs, reqIDs, Frames, SeqID>>)]_vars

\* a Send that failed at its closed check, after a Close that succeeded
C3_Witness ==
    /\ \E t \in Senders :
         /\ send[t].pc = "done"
         /\ send[t].seq = NoSeq
         /\ send[t].err = ErrClosedProducer
    /\ \E c \in Closers : close[c].pc = "done" /\ close[c].got # NoFrame
    /\ IsClosed

\* C4: Producer.Close sends one CLOSE_PRODUCER frame and then blocks; Closed()
\* has not fired while Close waits; a Close that sent its frame returns nil
\* only after the SUCCESS frame for its request-id was delivered, and Closed()
\* has fired by then.
C4_CloseWaitsForSuccess ==
    \A c \in Closers :
        /\ close[c].pc = "wait" => (close[c].sends = 1 /\ Closedc = 0)
        /\ (close[c].pc = "done" /\ close[c].sends = 1 /\ close[c].err = ErrNil)
             => (/\ Closedc > 0
                 /\ close[c].got.type = "SUCCESS"
                 /\ close[c].got.requestId = close[c].reqid)

\* C5: a Close call on an already-closed producer returns nil; it consumes
\* no request-id, registers nothing with the dispatcher and sends no frame.
C5_CloseIdempotent ==
    [][\A c \in Closers :
         (close[c].pc = "start" /\ close'[c].pc # "start" /\ IsClosed)
         => (/\ close'[c].pc = "done"
             /\ close'[c].err = ErrNil
             /\ close'[c].sends = 0
             /\ UNCHANGED <<ReqID, reqIDs, prodSeqIDs, Frames, IsClosed, Closedc>>)]_vars

\* a Close that found the producer closed, after a Close that succeeded
C5_Witness ==
    /\ \E c \in Closers :
         close[c].pc = "done" /\ close[c].reqid = NoSeq /\ close[c].err = ErrNil
    /\ \E c \in Closers : close[c].pc = "done" /\ close[c].got # NoFrame
    /\ Closedc = 1

HandleCloseProducerReturns == reader.pc = "closeProducer" /\ reader'.pc = "idle"

\* C6: HandleCloseProducer on an open producer marks it closed and fires
\* Closed() (once) without sending a frame; on a closed producer it changes
\* nothing.
C6_HandleCloseProducer ==
    [][HandleCloseProducerReturns =>
         /\ Frames' = Frames
         /\ ~IsClosed => (IsClosed' /\ Closedc = 0 /\ Closedc' = 1)
         /\ IsClosed => UNCHANGED <<pVars, reqIDs, ctxDone>>]_vars

\* the broker has closed the producer, nothing was ever sent, and a second
\* CLOSE_PRODUCER is about to be handled
C6_Witness ==
    /\ IsClosed
    /\ Closedc = 1
    /\ Frames = <<>>
    /\ reader.pc = "closeProducer"

\* C7: the sequence-ids taken by concurrent Send calls are 0, 1, 2, ... in
\* the order they are taken: pairwise distinct, starting at 0, none skipped.
C7_SequenceIDs ==
    /\ taken = [i \in 1 .. Len(taken) |-> i - 1]
    /\ \A t, u \in Senders :
         (t # u /\ send[t].seq # NoSeq) => send[t].seq # send[u].seq
    /\ \A t \in Senders : send[t].seq # NoSeq => send[t].seq \in 0 .. NumSend - 1

C7_Witness ==
    \E t, u \in Senders :
        /\ t # u
        /\ send[t].pc = "reg"
        /\ send[u].pc = "reg"
        /\ send[t].seq = 0
        /\ send[u].seq = 1

\* C8: a Connect call that reads an ERROR frame (request-id undefined,
\* delivered to the global slot) returns a non-nil error built from the
\* frame's error kind and message, and no CONNECTED value.
C8_ConnectRejected ==
    \A k \in Connectors :
        (connect[k].pc = "done" /\ connect[k].got.type = "ERROR")
        => (/\ connect[k].err # ErrNil
            /\ connect[k].err = Errorf(connect[k].got.error, connect[k].got.message)
            /\ connect[k].connected = "nil")

ConnCloseDone(x) == connClose[x].pc = "done"

\* C9: under concurrent Conn.Close calls the socket is closed at most once
\* and exactly once when the connection is closed, likewise the closed
\* signal; only the call that closed the socket may return an error, every
\* other call returns nil without touching the socket; IsClosed, once true,
\* stays true.
C9_ConnCloseOnce ==
    /\ [](/\ RcCloses <= 1
          /\ ConnClosedc <= 1
          /\ RcCloses = Cardinality({x \in ConnClosers : connClose[x].touched})
          /\ ConnIsClosed => (RcCloses = 1 /\ ConnClosedc = 1)
          /\ \A x \in ConnClosers :
               (ConnCloseDone(x) /\ ~connClose[x].touched)
               => (connClose[x].err = ErrNil /\ ConnIsClosed))
    /\ [][ConnIsClosed => ConnIsClosed']_vars

\* two Close calls have returned: one closed the socket, the other did not
C9_Witness ==
    \E x, y \in ConnClosers \ {ReadClose} :
        /\ ConnCloseDone(x) /\ connClose[x].touched
        /\ ConnCloseDone(y) /\ ~connClose[y].touched

\* C10: Read returns only after a decode failure, with that error, and once
\* it has returned the connection is closed and its closed signal has fired.
C10_ReadReturnsClosed ==
    read.pc = "returned" =>
        /\ read.err # ErrNil
        /\ ConnIsClosed
        /\ ConnClosedc = 1
        /\ RcCloses = 1

\* Read has returned a decode error and its own Close closed the socket
C10_Witness ==
    /\ read.pc = "returned"
    /\ read.err \in DecodeErrors
    /\ connClose[ReadClose].touched

\* the calls that have returned
Returned ==
    {SendCall(t) : t \in {u \in Senders : send[u].pc = "done"}}
      \cup {CloseCall(c) : c \in {d \in Closers : close[d].pc = "done"}}
      \cup {ConnectCall(k) : k \in {j \in DOMAIN connect : connect[j].pc = "done"}}

\* the calls that hold a dispatcher registration
Registered ==
    {prodSeqIDs[s] : s \in DOMAIN prodSeqIDs}
      \cup {reqIDs[r] : r \in DOMAIN reqIDs}
      \cup ({global} \ {NoCall})

\* C20: once Send, Close or Connect has returned, by whichever path, no
\* dispatcher key is registered to it any more and no frame is being handed
\* to it; the keys it had registered are free to be registered again.
C20_RegistrationsReleased ==
    /\ Registered \cap Returned = {}
    /\ reader.to \notin Returned
    /\ \A t \in Senders :
         (send[t].pc = "done" /\ send[t].seq # NoSeq)
           => send[t].seq \notin DOMAIN prodSeqIDs
    /\ \A c \in Closers :
         (close[c].pc = "done" /\ close[c].reqid # NoSeq
            /\ close[c].err # ErrAlreadyRegistered)
           => close[c].reqid \notin DOMAIN reqIDs
    /\ (\A k \in DOMAIN connect : connect[k].pc = "done")
         => (global = NoCall /\ UndefRequestID \notin DOMAIN reqIDs)

\* a Connect call returned on a cancelled context, and a second call then
\* registered the same keys; a Send has returned after a send failure and a
\* Close after its response
C20_Witness ==
    /\ \E k, j \in DOMAIN connect :
         /\ connect[k].pc = "done" /\ connect[k].err = ErrCtx
         /\ connect[j].pc = "wait"
         /\ global = ConnectCall(j)
         /\ reqIDs[UndefRequestID] = ConnectCall(j)
    /\ \E t \in Senders : send[t].pc = "done" /\ send[t].err = ErrSend
    /\ \E c \in Closers : close[c].pc = "done" /\ close[c].got # NoFrame

\* C12: for every frame, simple or with metadata and payload, Encode
\* succeeds (the frames are far below 5 MiB) and Decode of the bytes Encode
\* wrote succeeds with a frame equal to the one encoded.
C12_RoundTrip ==
    /\ fpc # "new" => buf.err = ErrNil
    /\ (fpc = "decoded" /\ corrupted = 0)
         => (decoded.err = ErrNil /\ FrameEqual(decoded.frame, frame))

C12_Witness ==
    /\ fpc = "decoded"
    /\ corrupted = 0
    /\ frame = PayloadFrame(SendCmd(300), Metadata(<<112, 49>>, 300, 77), <<14, 255>>)
    /\ decoded.frame.payload = <<14, 255>>
    /\ decoded.frame.meta[2].val = <<300>>

\* the encoded length of a frame, 4-byte total-size prefix included
EncodedLength(z) ==
    IF z.hasMeta
    THEN WAdd(WAdd(Wide(8), z.cmd), WAdd(WAdd(Wide(10), z.meta), z.payload))
    ELSE WAdd(Wide(8), z.cmd)

PayloadAt(f) == MetadataAt(f) + Len(Marshal(f.meta))

C14_TooLargeRejected ==
    (sized.pc = "done" /\ WGreater(EncodedLength(sizes), MaxFrameSize))
        => (sized.err = ErrFrameTooLarge /\ sized.written = WZero)

\* the bytes of W that came from call w, in the order the socket took them
WrittenBy(w) ==
    LET From(e) == e.by = w
        S == SelectSeq(W, From)
    IN  [i \in 1 .. Len(S) |-> S[i].byte]

\* C11: the bytes the socket has taken are the encoded frames of the calls,
\* one whole frame after the other: the bytes of each call are the first
\* bytes of its encoded frame, in order, they lie next to each other, and a
\* call's bytes begin only where the whole frame of the call before ended.
\* Only the last frame can be unfinished: its call is still writing, or the
\* socket failed under it.
C11_FramesNotInterleaved ==
    /\ \A w \in Writers :
         /\ write[w].pc \in {"lock", "write", "unlock"} \/ write[w].sent > 0
               => write[w].b = Encode(write[w].frame).bytes
         /\ WrittenBy(w) = SubSeq(write[w].b, 1, write[w].sent)
    /\ \A i \in 2 .. Len(W) :
         IF W[i].by = W[i - 1].by
         THEN W[i].at = W[i - 1].at + 1
         ELSE W[i].at = 1 /\ W[i - 1].at = Len(write[W[i - 1].by].b)
    /\ (W # <<>> /\ W[Len(W)].at < Len(write[W[Len(W)].by].b))
         => (broken \/ Wmu = <<"write", W[Len(W)].by>>)

\* every call has returned nil and the socket holds the whole frames of all
\* of them
C11_Witness ==
    /\ \A w \in Writers : write[w].pc = "done" /\ write[w].err = ErrNil
    /\ \E w, v \in Writers : write[w].frame # write[v].frame
    /\ W # <<>> /\ W[1].by = NumWrite

\* what the running reconnect call went through: its waits and its attempts
Waits == SelectSeq(manage.did, LAMBDA e : "wait" \in DOMAIN e)

\* C17: in a reconnect call the first attempt of the initial connection has
\* no wait before it and every other attempt has exactly one; the first wait
\* is InitialReconnectDelay, every later one is twice the one before it or
\* MaxReconnectDelay if that is less, and no wait exceeds MaxReconnectDelay.
C17_Backoff ==
    /\ \A i \in 1 .. Len(manage.did) :
         IF "attempt" \in DOMAIN manage.did[i]
         THEN i = 1 => manage.reconnectFlag
         ELSE /\ i = 1 => ~manage.reconnectFlag
              /\ i > 1 => "attempt" \in DOMAIN manage.did[i - 1]
              /\ i < Len(manage.did) => "attempt" \in DOMAIN manage.did[i + 1]
    /\ \A k \in 1 .. Len(Waits) :
         /\ Waits[k].wait =
              (IF k = 1 THEN cfg.InitialReconnectDelay
               ELSE Min(2 * Waits[k - 1].wait, cfg.MaxReconnectDelay))
         /\ Waits[k].wait <= cfg.MaxReconnectDelay

\* C15: once the installed consumer has raised one of its signals, the
\* supervisor installs another consumer in the end; and a Receive or Ack
\* that is under way while the lost consumer is unset and not yet replaced
\* carries out its operation, in the end, on a consumer made after the lost
\* one.
C15_Recovers ==
    /\ \A c \in ConsumerIDs :
          (consumer = c /\ lost[c] # NotLost) ~> (consumer # Nil /\ consumer # c)
    /\ \A o \in Ops, c \in ConsumerIDs :
          (manage.consumer = c /\ consumer = Nil /\ ops[o].pc \in {"call", "wait"})
             ~> (ops[o].operated /\ ops[o].on > c)

\* a call has sat on wait and then carried out its operation on the second
\* consumer, which is installed in place of the lost first one
C15_Witness ==
    /\ lost[1] # NotLost
    /\ consumer = 2
    /\ \E o \in Ops : ops[o].waited /\ ops[o].operated /\ ops[o].on = 2

\* C16: a call of Ack, Receive, RedeliverUnacknowledged, RedeliverOverflow,
\* Unsubscribe or Close that found no consumer has carried out no operation
\* while it waits; if it returns without one, it returns the error of its
\* context; and if it has sat on wait and carried out its operation, it did
\* so on the consumer it read under the read lock after the wait.
C16_WaitsThenOperates ==
    \A o \in Ops :
       /\ ops[o].pc = "wait" => ~ops[o].operated
       /\ (ops[o].pc = "done" /\ ~ops[o].operated) => ops[o].err = ErrCtx
       /\ (ops[o].waited /\ ops[o].operated)
             => ops[o].on # Nil /\ ops[o].on = ops[o].consumer

\* the messages put on the delivery queue, in the order they were put
Queued == SelectSeq([i \in 1 .. Len(put) |-> i], LAMBDA i : ~put[i])

\* C18 as stated: every Flow of ReceiveAsync asks for queue-capacity/2
\* permits, the first one as such and every later one because the count of
\* messages received since the Flow before it has just reached that number;
\* in its loop the count is the number of messages received since the last
\* Flow and is below queue-capacity/2.
C18_FlowAtHighwater ==
    /\ flow.on # Nil =>
         /\ flow.n = highwater
         /\ ~flow.first => flow.forwarded = highwater
    /\ async.pc = "loop" =>
         /\ async.receivedSinceFlow = Len(msgs) - flow.at
         /\ async.receivedSinceFlow < highwater

\* C18, amended: the first Flow of ReceiveAsync on a consumer it has just
\* read asks for queue-capacity/2 permits; every later one is made right
\* after a message was forwarded and asks for the number of messages
\* forwarded plus the number of overflow signals taken since the Flow
\* before it, which is at least queue-capacity/2; in its loop the count is
\* that sum since the last Flow, and fewer than queue-capacity/2 of it are
\* forwarded messages.
C18_FlowPolicy ==
    /\ flow.on # Nil =>
         IF flow.first THEN flow.n = highwater
         ELSE /\ flow.n = flow.forwarded + flow.signals
              /\ flow.n >= highwater
              /\ flow.forwarded >= 1
              /\ flow.forwarded <= highwater
    /\ async.pc = "loop" =>
         /\ flow.on = async.consumer
         /\ async.receivedSinceFlow = (Len(msgs) - flow.at) + (async.signals - flow.sig)
         /\ Len(msgs) - flow.at < highwater

\* a Flow for more than queue-capacity/2 permits, overflow signals counted in
C18_Witness ==
    /\ flow.on # Nil /\ ~flow.first
    /\ flow.signals > 0
    /\ flow.n > highwater
    /\ async.pc = "loop" /\ async.receivedSinceFlow = 0

\* C19: what ReceiveAsync has sent on the user's channel, followed by what is
\* still on the delivery queue, is the sequence of the messages put on the
\* queue: every message is forwarded once, in the order of the queue.
C19_ForwardedInOrder == msgs \o queue = Queued

\* messages that were on the queue when their consumer was lost have been
\* forwarded by drain, and ReceiveAsync is at work on the replacement
C19_Witness ==
    /\ async.drained > 0
    /\ async.consumer > 1 /\ async.pc = "loop"
    /\ Len(msgs) > async.drained
    /\ queue = <<>>

\* C26 as stated: from the start of the encoding of its frame to the end of
\* the write of its buffer a sender is inside one critical section of the
\* write mutex: a call that has encoded its frame and has not yet finished
\* its write holds c.Wmu.
C26_EncodeAndWriteLocked ==
    \A w \in Writers :
       write[w].pc \in {"lock", "write", "unlock"} => Wmu = <<"write", w>>

\* C26, amended: the write of the buffer to the socket is inside a critical
\* section of the write mutex of its own, and the frame is encoded into the
\* call's buffer before the mutex is taken: a call that writes holds c.Wmu,
\* a call that has encoded and waits for the mutex does not hold it, and its
\* buffer already holds the whole encoded frame.
C26_WriteLocked ==
    \A w \in Writers :
       /\ write[w].pc \in {"write", "unlock"} => Wmu = <<"write", w>>
       /\ write[w].pc = "lock" =>
            /\ Wmu # <<"write", w>>
            /\ write[w].b # <<>>
            /\ write[w].sent = 0

\* a call has encoded its frame while another call is in the middle of its
\* write
C26_Witness ==
    \E w, v \in Writers :
       /\ write[w].pc = "lock" /\ write[w].b # <<>>
       /\ write[v].pc = "write" /\ write[v].sent > 0
       /\ Wmu = <<"write", v>>

\* C28: a call whose write to the socket failed has left the connection
\* closed: c.IsClosed is set and c.Closedc is closed.
C28_WriteErrorCloses ==
    \A w \in Writers :
       (write[w].pc = "done" /\ write[w].err = ErrWrite)
          => (ConnIsClosed /\ ConnClosedc > 0)

\* the pool of the command class of a call's frame is saturated
Saturated(w) ==
    IF smallCmdType(write[w].frame)
    THEN smallBufPoolChan = smalleBufLimit
    ELSE bufPoolChan = bufLimit

\* C27: at most 50 large and 1000 small buffers are out, each call in
\* progress holds one buffer of the pool of its frame's command class, and
\* a call that finds that pool saturated stays before getBuf: it takes no
\* step until the pool has room again.
C27_PoolsBounded ==
    /\ [](/\ bufPoolChan \in 0 .. bufLimit
          /\ smallBufPoolChan \in 0 .. smalleBufLimit
          /\ HeldLarge <= bufPoolChan
          /\ HeldSmall <= smallBufPoolChan)
    /\ [][\A w \in Writers :
            (write[w].pc = "start" /\ Saturated(w)) => write'[w] = write[w]]_vars

\* a call waits for a buffer of a saturated pool while another call on the
\* connection holds one
C27_Witness ==
    \E w, v \in Writers :
       /\ write[w].pc = "start" /\ Saturated(w)
       /\ HeldBy(v)
       /\ smallCmdType(write[v].frame) = smallCmdType(write[w].frame)

\* a Connect call that holds both registrations: it is about to send CONNECT
\* or awaits the response
Handshaking(k) == connect[k].pc \in {"send", "wait"}

\* C25: at most one Connect call per dispatcher has its handshake
\* outstanding.  A call that finds the global slot held fails with the
\* already-registered error; while another call's handshake is outstanding a
\* call never gets to send: it fails with that error at one of its two
\* registrations, and no frame is sent.  The slots are held by calls in
\* progress only, and a call that finds the slot free registers.
C25_OneHandshake ==
    /\ [](/\ Cardinality({k \in Connectors : Handshaking(k)}) <= 1
          /\ \A k \in Connectors :
                connect[k].err = ErrAlreadyRegistered => connect[k].sends = 0
          /\ global # NoCall =>
                connect[global[2]].pc \in {"regErr", "send", "wait"}
          /\ UndefRequestID \in DOMAIN reqIDs =>
                Handshaking(reqIDs[UndefRequestID][2]))
    /\ [][\A k \in Connectors :
            (connect[k].pc \in {"start", "regErr"} /\ connect'[k] # connect[k]) =>
               /\ (connect[k].pc = "start" /\ global # NoCall) =>
                     /\ connect'[k].pc = "done"
                     /\ connect'[k].err = ErrAlreadyRegistered
                     /\ Frames' = Frames
               /\ (connect[k].pc = "start" /\ global = NoCall) =>
                     /\ connect'[k].pc = "regErr"
                     /\ global' = ConnectCall(k)
               /\ (\E j \in Connectors \ {k} : Handshaking(j)) =>
                     /\ \/ connect[k].pc = "start" /\ connect'[k].pc = "regErr"
                        \/ /\ connect'[k].pc = "done"
                           /\ connect'[k].err = ErrAlreadyRegistered
                     /\ Frames' = Frames]_vars

\* a Connect call has failed with the already-registered error while
\* another call awaits the response to its CONNECT
C25_Witness ==
    \E j, k \in Connectors :
       /\ connect[j].pc = "wait" /\ connect[j].sends = 1
       /\ connect[k].pc = "done" /\ connect[k].err = ErrAlreadyRegistered
       /\ Len(Frames) = 1

\* the registration of `who` under key k of map m has completed: the key is
\* held by `who`, or a frame notified to it already waits on its channel
KeyHeld(m, k, who, via) ==
    \/ k \in DOMAIN m /\ m[k] = who
    \/ Offered(who, via)

\* C23: on every step that hands a request frame to the sender, the call
\* that sends it has completed the registration for the response (Send its
\* sequence-id, Close its request-id, Connect the global slot and the
\* undefined request-id); and a call whose registration failed has sent no
\* frame.
C23_RegisteredBeforeSend ==
    /\ [](/\ \A t \in Senders :
                send[t].err = ErrAlreadyRegistered => send[t].sends = 0
          /\ \A c \in Closers :
                close[c].err = ErrAlreadyRegistered => close[c].sends = 0
          /\ \A k \in Connectors :
                connect[k].err = ErrAlreadyRegistered => connect[k].sends = 0)
    /\ [][Frames' # Frames =>
            /\ Len(Frames') = Len(Frames) + 1
            /\ LET f == Frames'[Len(Frames')]
               IN  CASE f.type = "SEND" ->
                          \E t \in Senders :
                             /\ send'[t].sends = send[t].sends + 1
                             /\ send[t].seq = f.sequenceId
                             /\ KeyHeld(prodSeqIDs, f.sequenceId, SendCall(t),
                                           "prodSeqIDs")
                     [] f.type = "CLOSE_PRODUCER" ->
                          \E c \in Closers :
                             /\ close'[c].sends = close[c].sends + 1
                             /\ close[c].reqid = f.requestId
                             /\ KeyHeld(reqIDs, f.requestId, CloseCall(c), "reqIDs")
                     [] OTHER ->
                          \E k \in Connectors :
                             /\ f.type = "CONNECT"
                             /\ connect'[k].sends = connect[k].sends + 1
                             /\ global = ConnectCall(k)
                                  \/ Offered(ConnectCall(k), "global")
                             /\ KeyHeld(reqIDs, UndefRequestID, ConnectCall(k),
                                           "reqIDs")]_vars

\* Send, Close and Connect have each sent their frame and wait for the
\* response, and a Connect call whose registration failed has returned
C23_Witness ==
    /\ \E t \in Senders : send[t].pc = "wait" /\ send[t].sends = 1
    /\ \E c \in Closers : close[c].pc = "wait" /\ close[c].sends = 1
    /\ \E j, k \in Connectors :
          /\ connect[j].pc = "wait" /\ connect[j].sends = 1
          /\ connect[k].pc = "done" /\ connect[k].err = ErrAlreadyRegistered
    /\ Len(Frames) = 3

\* C24: a Send that waits in its select with the producer closed (by the
\* broker's CLOSE_PRODUCER or by a Close call) eventually returns; and when
\* it returns with the producer closed, no frame offered on its key and its
\* context not done, it returns ErrClosedProducer.
C24_SendReturnsOnClose ==
    /\ \A t \in Senders :
          (send[t].pc = "wait" /\ Closedc > 0) ~> (send[t].pc = "done")
    /\ [][\A t \in Senders :
            (/\ send[t].pc = "wait"
             /\ send'[t].pc = "done"
             /\ Closedc > 0
             /\ ~ctxDone[SendCall(t)]
             /\ ~Offered(SendCall(t), "prodSeqIDs"))
               => send'[t].err = ErrClosedProducer]_vars

\* a Send that had sent its frame has returned ErrClosedProducer, its
\* context not done
C24_Witness ==
    \E t \in Senders :
       /\ send[t].pc = "done"
       /\ send[t].sends = 1
       /\ send[t].err = ErrClosedProducer
       /\ ~ctxDone[SendCall(t)]
       /\ IsClosed

\* C29: of m.consumer and m.waitc exactly one is non-nil, a non-nil m.waitc
\* is a channel that has not been closed, and a pair read under the read lock
\* has exactly one non-nil member as well.
C29_ConsumerOrWait ==
    /\ (consumer = Nil) <=> (waitc # Nil)
    /\ waitc # Nil => waitc \notin waitClosed
    /\ \A o \in Ops :
          ops[o].pc \in {"wait", "operate"} =>
             ((ops[o].consumer = Nil) <=> (ops[o].wait # Nil))

\* unset after set after unset: the second wait channel is open, the first
\* one closed, and an operation holds a consumer it read in between
C29_Witness ==
    /\ consumer = Nil
    /\ waitc = 2
    /\ waitClosed = {1}
    /\ \E o \in Ops : ops[o].pc = "operate" /\ ops[o].consumer # Nil

\* C30: on the step of manage that installs a replacement consumer, that
\* consumer already holds the Overflow map and the OverflowSignal channel of
\* the consumer it replaces; so every consumer installed holds those of the
\* first one.
C30_OverflowInherited ==
    /\ [](consumer # Nil => overflowOf[consumer] = NewOverflow(1))
    /\ [][(consumer' # consumer /\ consumer' # Nil /\ manage.consumer # Nil) =>
            /\ consumer' # manage.consumer
            /\ overflowOf[consumer'] = overflowOf[manage.consumer]
            /\ overflowOf' = overflowOf]_vars

\* the second consumer is installed, after the loss of the first, with the
\* Overflow and OverflowSignal of the first
C30_Witness ==
    /\ consumer = 2
    /\ lost[1] # NotLost
    /\ overflowOf[2] = NewOverflow(1)
    /\ overflowOf[2] # NewOverflow(2)

\* C21: ReceiveAsync has returned only with its context done, and then it
\* returned the error of the context.  The step on which it finds its
\* consumer or the connection closed, or on which Flow fails, sends that
\* error on m.asyncErrs and leaves the call running, back at drain.
C21_ReturnsOnContextOnly ==
    /\ [](async.pc = "done" =>
             /\ async.ctxErr \in CtxErrors
             /\ async.err = async.ctxErr)
    /\ [][(async.pc \in {"flow", "loop"} /\ async'.pc \notin {"flow", "loop"}
           /\ async.ctxErr = ErrNil) =>
            /\ async'.pc = "drain"
            /\ async'.err = ErrNil
            /\ async'.sent =
                 IF async.pc = "flow" \/ msgs' # msgs THEN ErrFlow
                 ELSE IF lost[async.consumer] = "Closed" THEN ErrConsumerClosed
                 ELSE ErrConnClosed]_vars

\* the call has forwarded messages, gone on to the second consumer after
\* the loss of the first, and returned the deadline error of its context
C21_Witness ==
    /\ async.pc = "done"
    /\ async.err = ErrDeadline
    /\ lost[1] \in {"Closed", "ConnClosed"}
    /\ async.consumer = 2
    /\ Len(msgs) > 0

\* C22: for every consumer in use, the permits its broker holds plus the
\* messages waiting on m.queue are at most the configured queue size.
C22_PermitsWithinQueue ==
    \A c \in DOMAIN permits :
       (c <= made /\ lost[c] = NotLost) =>
          permits[c] + Len(queue) <= cfg.QueueSize

\* C31: HandleCloseProducer, on the reader task, never waits for p.Mu while
\* the Close call that holds p.Mu waits for a frame that only the reader
\* task can deliver.
C31_ReaderNotBlocked ==
    reader.pc = "closeProducer" =>
       \A c \in Closers : ~(Mu = CloseCall(c) /\ close[c].pc = "wait")

\* C32: Closedc is closed at most once, it is closed exactly when IsClosed
\* is true, and IsClosed never goes back to false.
C32_ClosedOnce ==
    /\ [](/\ Closedc <= 1
          /\ IsClosed <=> Closedc > 0)
    /\ [][IsClosed => (IsClosed' /\ Closedc' = Closedc)]_vars

\* a Close call has closed the producer, a Send has found it closed, and
\* the broker's CLOSE_PRODUCER is about to be handled on top
C32_Witness ==
    /\ IsClosed
    /\ Closedc = 1
    /\ \E c \in Closers : close[c].pc = "done" /\ close[c].got # NoFrame
    /\ \E t \in Senders : send[t].pc = "done" /\ send[t].err = ErrClosedProducer
    /\ reader.pc = "closeProducer"

\* the request-ids of the CLOSE_PRODUCER frames sent, in the order sent
CloseRequestIDs ==
    LET sent == SelectSeq(Frames, LAMBDA f : f.type = "CLOSE_PRODUCER")
    IN  [i \in 1 .. Len(sent) |-> sent[i].requestId]

\* C33: on the step on which a Close call returns an error (registration,
\* send, context) the producer is open and stays open, Closedc not closed;
\* the Close calls take pairwise distinct request-ids, and each
\* CLOSE_PRODUCER frame carries a larger request-id than the ones sent
\* before it.
C33_FailedCloseKeepsOpen ==
    /\ [][\A c \in Closers :
            (close[c].pc # "done" /\ close'[c].pc = "done" /\ close'[c].err # ErrNil) =>
               /\ ~IsClosed /\ ~IsClosed'
               /\ Closedc = 0 /\ Closedc' = 0]_vars
    /\ [](/\ \A c, d \in Closers :
                (c # d /\ close[c].reqid # NoSeq) => close[c].reqid # close[d].reqid
          /\ \A i, j \in DOMAIN CloseRequestIDs :
                i < j => CloseRequestIDs[i] < CloseRequestIDs[j])

\* after a Close call whose context ended, and which had sent its frame,
\* another Close call has sent a frame with a larger request-id
C33_Witness ==
    \E c, d \in Closers :
       /\ close[c].pc = "done" /\ close[c].err = ErrCtx /\ close[c].sends = 1
       /\ close[d].pc = "wait" /\ close[d].sends = 1
       /\ close[d].reqid > close[c].reqid
       /\ CloseRequestIDs = <<close[c].reqid, close[d].reqid>>
       /\ ~IsClosed

\* C34: m.stopManageChan is closed at most once.
C34_StopClosedOnce == stopManageChan <= 1

\* C35: a Close or Unactive call that has used a consumer has used the one
\* it read, non-nil, under the read lock.
C35_UsesConsumerRead ==
    \A o \in Ops :
       (ops[o].kind \in {"Close", "Unactive"} /\ ops[o].operated) =>
          /\ ops[o].on # Nil
          /\ ops[o].on = ops[o].consumer

\* C36: once m.stopManageChan is closed, the supervisor creates no consumer
\* and installs none.
C36_NoCreateAfterStop ==
    [][stopManageChan > 0 =>
         /\ made' = made
         /\ consumer' # consumer => consumer' = Nil]_vars

\* C37: once the context of ReceiveAsync is done, the call returns.
C37_ReturnsAfterContext == (async.ctxErr # ErrNil) ~> (async.pc = "done")

====
